---- MODULE Spec2Model ----
(***************************************************************************)
(* Model of the synthesis-orchestration core of content-service:           *)
(*   - the TTS job queue (streamByChunkIds.go),                            *)
(*   - the chunk-group resolver processMergedChunks (chunk_merger.go),     *)
(*   - the merge orchestrator processSoundEffectsAndMerge                  *)
(*     (unnamed/part_004).                                                 *)
(* The database tables are the variables jobs, groups, books, chunkTTS.    *)
(***************************************************************************)
EXTENDS Integers, Sequences, FiniteSets, TLC

(***************************************************************************)
(* Bounds of the model.                                                    *)
(***************************************************************************)
\* requests accepted: queued jobs, interactive chunk requests and direct
\* merges of a book, all together
MaxWork == 2

(***************************************************************************)
(* Program constants.                                                      *)
(***************************************************************************)
\* streamByChunkIds.go:55  combined text limit in bytes
TTSLimit == 2000
\* streamByChunkIds.go:16  binding max=10
MaxChunkIDs == 10
\* unnamed/part_004:273  hash[:8]
HashPrefixLen == 8
\* length of a hex sha256 digest (computeContentHash, fmt "%x" of 32 bytes)
DigestLen == 64
\* unnamed/part_004:100  the length in seconds of one generated music clip
ClipSeconds == 22
\* the most activations of overlaySoundEvents in one process lifetime
MaxOverlays == 2

(***************************************************************************)
(* Static tables: the books and book_chunks rows that exist.               *)
(***************************************************************************)
BookIDs == {1, 2}
ChunkIds == {1, 2, 3, 4}

\* BookChunk rows: id -> book, index, len(Content)
BookChunk ==
  [id \in ChunkIds |->
     CASE id = 1 -> [book |-> 1, index |-> 0, len |-> 600]
       [] id = 2 -> [book |-> 1, index |-> 1, len |-> 900]
       [] id = 3 -> [book |-> 1, index |-> 2, len |-> 600]
       [] id = 4 -> [book |-> 2, index |-> 0, len |-> 2100]]

\* content hashes: "" is the unset hash, the others stand for sha256 digests
Hashes == {"", "H1", "H2"}
HashLen(h) == IF h = "" THEN 0 ELSE DigestLen

(***************************************************************************)
(* Paths.  Every path is a record of one shape so that paths compare.      *)
(***************************************************************************)
Path(kind, id, s, e, h) == [kind |-> kind, id |-> id, s |-> s, e |-> e, h |-> h]
NoPath == Path("", 0, 0, 0, "")
\* chunk_merger.go:38  ./audio/book_%d_chunks_%d_%d.txt
TextFilePath(bookID, s, e) == Path("chunks_txt", bookID, s, e, "")
\* chunk_merger.go:58  ./audio/book_%d_chunks_%d_%d.mp3
MergedAudioPath(bookID, s, e) == Path("chunks_mp3", bookID, s, e, "")
\* part_004:273  ./merged_output_%d_%s.ogg  (book.ID, hash[:8])
MergedOutputPath(bookID, hash) == Path("merged_output", bookID, 0, 0, hash)
\* part_004:484  ./final_with_fx_%s_%d_%s.ogg  (title, book.ID, ContentHash[:8])
FinalWithFxPath(bookID, hash) == Path("final_with_fx", bookID, 0, 0, hash)
\* the narration audio of a whole book (processBookConversion)
TTSPath(bookID) == Path("tts", bookID, 0, 0, "")

(***************************************************************************)
(* Strings are sequences of one-character strings.                         *)
(***************************************************************************)
Digits == <<"0", "1", "2", "3", "4", "5", "6", "7", "8", "9">>
IsDigit(c) == \E i \in 1..10 : Digits[i] = c
DigitValue(c) == (CHOOSE i \in 1..10 : Digits[i] = c) - 1

RECURSIVE FormatUint(_)
\* fmt.Sprintf("%d", n)
FormatUint(n) ==
  IF n < 10 THEN <<Digits[n + 1]>>
  ELSE FormatUint(n \div 10) \o <<Digits[(n % 10) + 1]>>

RECURSIVE JoinParts(_, _)
\* strings.Join(parts, sep)
JoinParts(parts, sep) ==
  IF Len(parts) = 0 THEN <<>>
  ELSE IF Len(parts) = 1 THEN parts[1]
  ELSE parts[1] \o sep \o JoinParts(Tail(parts), sep)

\* joinUintSlice
joinUintSlice(nums) ==
  JoinParts([i \in 1..Len(nums) |-> FormatUint(nums[i])], <<",">>)

RECURSIVE SplitComma(_, _)
\* strings.Split(s, ","): cur is the part being read
SplitComma(s, cur) ==
  IF Len(s) = 0 THEN <<cur>>
  ELSE IF Head(s) = "," THEN <<cur>> \o SplitComma(Tail(s), <<>>)
  ELSE SplitComma(Tail(s), Append(cur, Head(s)))

RECURSIVE ScanUint(_, _)
\* fmt.Sscanf(p, "%d", &v): the leading digits, v stays 0 when there are none
ScanUint(p, acc) ==
  IF Len(p) = 0 \/ ~IsDigit(Head(p)) THEN acc
  ELSE ScanUint(Tail(p), acc * 10 + DigitValue(Head(p)))

\* a parse that reads one digit of each part
parseChunkIDsOneDigit(s) ==
  LET parts == SplitComma(s, <<>>)
  IN  [i \in 1..Len(parts) |->
         ScanUint(SubSeq(parts[i], 1, IF Len(parts[i]) = 0 THEN 0 ELSE 1), 0)]

\* parseChunkIDs
parseChunkIDs(s) ==
  LET parts == SplitComma(s, <<>>)
  IN  [i \in 1..Len(parts) |-> ScanUint(parts[i], 0)]

\* the chunk id lists taken through the chunk_ids column: ids of one, two and
\* three digits and the id 0, up to MaxIds of them, the empty list included
MaxIds == 3
IdValues == {0, 7, 10, 23, 105}
IdLists == UNION {[1..n -> IdValues] : n \in 0..MaxIds}

NoTrip == [pc |-> "idle", ids |-> <<>>, column |-> <<>>, parsed |-> <<>>]

(***************************************************************************)
(* Sequence helpers.                                                       *)
(***************************************************************************)
Range(s) == {s[i] : i \in 1..Len(s)}

RECURSIVE SortByIndex(_)
\* ORDER BY index of a set of chunk ids (ties, which the callers never
\* produce inside one book, are broken by id)
SortByIndex(S) ==
  IF S = {} THEN <<>>
  ELSE LET m == CHOOSE x \in S : \A y \in S :
                   \/ BookChunk[x].index < BookChunk[y].index
                   \/ /\ BookChunk[x].index = BookChunk[y].index
                      /\ x <= y
       IN  <<m>> \o SortByIndex(S \ {m})

RECURSIVE SumLen(_)
\* len(combined.String()) of the chunks' contents
SumLen(ids) ==
  IF Len(ids) = 0 THEN 0 ELSE BookChunk[Head(ids)].len + SumLen(Tail(ids))

VARIABLES
  once,      \* sync.Once of startTTSWorker has fired
  workers,   \* the worker goroutines: [pc, job, call]
  jobs,      \* tts_queue_jobs rows, the row's ID is its position
  clock,     \* the time that stamps created_at
  calls,     \* activations of processMergedChunks
  groups,    \* processed_chunk_groups rows
  runs,      \* activations of processSoundEffectsAndMerge
  books,     \* books rows: [status, audio, hash]
  chunkTTS,  \* book_chunks.tts_status
  crashed,   \* the process died of an unrecovered panic in a goroutine
  reply,     \* history: the last response of streamAudioByChunkIDsHandler
  workdir,   \* history: the run that last wrote each fixed-name file
  answer,    \* history: the last response of ProcessChunksTTSHandler
  group,     \* one activation of processMergedChunks taken alone: its
             \* arguments, the chunk rows' audio, and what it has written
  builds,    \* the merges at work on the background track, step by step
  tempdir,   \* the per-segment clips and the concat list in the working
             \* directory: the merge that wrote them, 0 when there is none
  trip,      \* one list of chunk ids on its way through the chunk_ids
             \* column: as submitted, as stored, as the worker reads it
  plan,      \* one activation of mergeAudio's segment plan and background
             \* track, taken alone: its inputs and what it has computed
  effectCache,  \* the process-wide map from event type to clip path
  effectCalls,  \* calls made to the effect-generation collaborator, by type
  overlays,     \* the activations of overlaySoundEvents, running or done
  raceFatal     \* the runtime stopped the process on concurrent map access

\* the variables of the service
serviceVars == <<once, workers, jobs, clock, calls, groups, runs, books,
                 chunkTTS, crashed, reply, workdir, answer, group,
                 builds, tempdir, trip>>

\* the variables of the sound-effect overlay
mixVars == <<effectCache, effectCalls, overlays, raceFatal>>

vars == <<once, workers, jobs, clock, calls, groups, runs, books,
          chunkTTS, crashed, reply, workdir, answer, group, builds,
          tempdir, trip, plan,
          effectCache, effectCalls, overlays,
          raceFatal>>

\* requests accepted so far
InteractiveCalls == {c \in 1..Len(calls) : calls[c].caller = 0}
DirectRuns == {r \in 1..Len(runs) : runs[r].by = 0}
Work == Len(jobs) + Cardinality(InteractiveCalls) + Cardinality(DirectRuns)

(***************************************************************************)
(* Dedup store by chunk range (processed_chunk_groups).                    *)
(***************************************************************************)
GroupRows(g, bookID, s, e) ==
  {i \in 1..Len(g) : g[i].book = bookID /\ g[i].s = s /\ g[i].e = e}

\* checkIfChunkGroupProcessed: (path, found)
checkIfChunkGroupProcessed(g, bookID, s, e) ==
  LET rows == GroupRows(g, bookID, s, e)
  IN  IF rows = {} THEN [path |-> NoPath, found |-> FALSE]
      ELSE [path |-> g[CHOOSE i \in rows : \A k \in rows : i <= k].path,
            found |-> TRUE]

\* saveProcessedChunkGroup: one more row
saveProcessedChunkGroup(g, bookID, s, e, path) ==
  Append(g, [book |-> bookID, s |-> s, e |-> e, path |-> path])

(***************************************************************************)
(* streamAudioByChunkIDsHandler                                            *)
(***************************************************************************)
\* the request bodies tried
SubmitRequests ==
  { [book |-> 1, ids |-> <<1, 3>>],
    [book |-> 1, ids |-> <<1, 2, 3>>],
    [book |-> 2, ids |-> <<4>>],
    [book |-> 1, ids |-> <<1, 4>>],
    [book |-> 1, ids |-> <<>>] }

\* binding:"required,min=1,max=10" on chunk_ids, "required" on book_id
BindOK(req) ==
  /\ Len(req.ids) >= 1
  /\ Len(req.ids) <= MaxChunkIDs
  /\ req.book # 0

\* db.Where("id IN ? AND book_id = ?", ...).Find(&chunks)
ChunksOfBook(ids, bookID) ==
  {id \in Range(ids) \cap ChunkIds : BookChunk[id].book = bookID}

\* a row for a job that was carried out before the response
NewJobDone(req, now) ==
  [book |-> req.book, chunkIDs |-> joinUintSlice(req.ids),
   status |-> "complete", created |-> now]

\* the new tts_queue_jobs row
NewJob(req, now) ==
  [book |-> req.book, chunkIDs |-> joinUintSlice(req.ids),
   status |-> "queued", created |-> now]

Outcome(code, file, enqueue) == [code |-> code, file |-> file, enqueue |-> enqueue]

\* a handler without the size check of lines 51-58
SubmitOutcomeNoLimit(req, g, dbOk) ==
  IF ~BindOK(req) THEN Outcome(400, NoPath, FALSE)
  ELSE IF ~dbOk THEN Outcome(500, NoPath, FALSE)
  ELSE LET chunks == SortByIndex(ChunksOfBook(req.ids, req.book))
       IN  IF Len(chunks) # Len(req.ids) THEN Outcome(404, NoPath, FALSE)
           ELSE LET hit == checkIfChunkGroupProcessed(
                             g, req.book, BookChunk[chunks[1]].index,
                             BookChunk[chunks[Len(chunks)]].index)
                IN  IF hit.found THEN Outcome(200, hit.path, FALSE)
                    ELSE Outcome(202, NoPath, TRUE)

\* a handler that does not look for a processed group
SubmitOutcomeNoLookup(req, g, dbOk) ==
  IF ~BindOK(req) THEN Outcome(400, NoPath, FALSE)
  ELSE IF ~dbOk THEN Outcome(500, NoPath, FALSE)
  ELSE LET chunks == SortByIndex(ChunksOfBook(req.ids, req.book))
       IN  IF Len(chunks) # Len(req.ids) THEN Outcome(404, NoPath, FALSE)
           ELSE IF SumLen(chunks) > TTSLimit
           THEN Outcome(400, NoPath, FALSE)
           ELSE Outcome(202, NoPath, TRUE)

\* the response and whether a job is created, lines 25-68
SubmitOutcome(req, g, dbOk) ==
  IF ~BindOK(req) THEN Outcome(400, NoPath, FALSE)
  ELSE IF ~dbOk THEN Outcome(500, NoPath, FALSE)
  ELSE LET chunks == SortByIndex(ChunksOfBook(req.ids, req.book))
       IN  IF Len(chunks) # Len(req.ids) THEN Outcome(404, NoPath, FALSE)
           ELSE LET startIdx == BookChunk[chunks[1]].index
                    endIdx == BookChunk[chunks[Len(chunks)]].index
                    hit == checkIfChunkGroupProcessed(g, req.book, startIdx, endIdx)
                IN  IF hit.found THEN Outcome(200, hit.path, FALSE)
                    ELSE IF SumLen(chunks) > TTSLimit
                    THEN Outcome(400, NoPath, FALSE)
                    ELSE Outcome(202, NoPath, TRUE)

\* the files every run writes under the same name: the music clip
\* (generateSoundEffect without id, part_004:82) and the background track
\* with its per-segment clips, list and staged file (lines 204, 222, 229, 234)
NoFiles == [music |-> 0, bg |-> 0]

\* c.JSON(code, ...) or c.File(path), with the request it answers
Reply(req, out) == [req |-> req, code |-> out.code, file |-> out.file]
NoReply == [req |-> [book |-> 0, ids |-> <<>>], code |-> 0, file |-> NoPath]

\* lines 23-69; dbOk: the query of line 34 succeeds
streamAudioByChunkIDsHandler(req, dbOk) ==
  /\ ~crashed
  /\ LET out == SubmitOutcome(req, groups, dbOk)
     IN  IF out.enqueue
         THEN \E dt \in {0, 1} :
                /\ jobs' = Append(jobs, NewJob(req, clock + dt))
                /\ clock' = clock + dt
         ELSE UNCHANGED <<jobs, clock>>
  /\ UNCHANGED <<once, workers, calls, groups, runs, books,
                 chunkTTS, crashed>>

(***************************************************************************)
(* startTTSWorker and its loop                                             *)
(***************************************************************************)
\* a start that does not go through the sync.Once
OnceDoAlways(done) == TRUE

\* once.Do(f): f runs only on the first call
OnceDo(done) == ~done

startTTSWorker ==
  /\ ~crashed
  /\ once' = TRUE
  /\ workers' = IF OnceDo(once)
                THEN Append(workers, [pc |-> "select", job |-> 0, call |-> 0])
                ELSE workers
  /\ UNCHANGED <<jobs, clock, calls, groups, runs, books, chunkTTS, crashed>>

Queued(js) == {j \in 1..Len(js) : js[j].status = "queued"}

\* Order("created_at desc"): the newest queued job
SelectNewest(js) ==
  IF {j \in 1..Len(js) : js[j].status = "queued"} = {} THEN 0
  ELSE CHOOSE j \in {i \in 1..Len(js) : js[i].status = "queued"} :
         \A k \in {i \in 1..Len(js) : js[i].status = "queued"} :
           \/ js[j].created > js[k].created
           \/ js[j].created = js[k].created /\ j >= k

\* db.Where("status = ?", "queued").Order("created_at").First(&job):
\* the first row by created_at, then by primary key; 0 when there is none
SelectJob(js) ==
  IF Queued(js) = {} THEN 0
  ELSE CHOOSE j \in Queued(js) : \A k \in Queued(js) :
         \/ js[j].created < js[k].created
         \/ js[j].created = js[k].created /\ j <= k

NewCall(caller, bookID, ids) ==
  [caller |-> caller, book |-> bookID, ids |-> ids, pc |-> "lookup",
   s |-> 0, e |-> 0, found |-> FALSE, wrote |-> FALSE, ffmpeg |-> 0,
   run |-> 0, saved |-> FALSE, err |-> FALSE]

\* lines 92-100: select, mark processing, enter processMergedChunks
WorkerSelect(w) ==
  /\ ~crashed
  /\ workers[w].pc = "select"
  /\ SelectJob(jobs) # 0
  /\ LET j == SelectJob(jobs)
     IN  /\ jobs' = [jobs EXCEPT ![j].status = "processing"]
         /\ calls' = Append(calls,
                            NewCall(j, jobs[j].book, parseChunkIDs(jobs[j].chunkIDs)))
         /\ workers' = [workers EXCEPT ![w] =
                          [pc |-> "merge", job |-> j, call |-> Len(calls) + 1]]
  /\ UNCHANGED <<once, clock, groups, runs, books, chunkTTS, crashed>>

\* lines 94-97: nothing queued, time.Sleep(5 * time.Second)
WorkerSleep(w) ==
  /\ ~crashed
  /\ workers[w].pc = "select"
  /\ SelectJob(jobs) = 0
  /\ UNCHANGED vars

\* a failed job left as it was when selected
StatusLeft(err) == IF err THEN "processing" ELSE "complete"

\* a failed job put back in the queue
StatusRetry(err) == IF err THEN "queued" ELSE "complete"

\* lines 101-105: the status written for the outcome of processMergedChunks
StatusAfterMerge(err) == IF err THEN "failed" ELSE "complete"

WorkerFinish(w) ==
  /\ ~crashed
  /\ workers[w].pc = "merge"
  /\ calls[workers[w].call].pc = "done"
  /\ jobs' = [jobs EXCEPT ![workers[w].job].status =
                StatusAfterMerge(calls[workers[w].call].err)]
  /\ workers' = [workers EXCEPT ![w] = [pc |-> "select", job |-> 0, call |-> 0]]
  /\ UNCHANGED <<once, clock, calls, groups, runs, books, chunkTTS,
                 crashed>>

(***************************************************************************)
(* processMergedChunks (chunk_merger.go), one action per access to shared  *)
(* state: the lookup, the artifact writes, the launch and the save.        *)
(***************************************************************************)
\* line 17: db.Where("id IN ?", chunkIDs).Order("index").Find(&chunks)
FetchChunks(ids) == SortByIndex(Range(ids) \cap ChunkIds)

\* a lookup whose result is ignored
PmcAfterLookupIgnore(found) == "merge"

\* lines 28-31: the position after the lookup
PmcAfterLookup(found) == IF found THEN "done" ELSE "merge"

\* lines 15-31
PmcLookup(c) ==
  /\ ~crashed
  /\ calls[c].pc = "lookup"
  /\ \E dbOk \in BOOLEAN :
       LET chunks == FetchChunks(calls[c].ids)
       IN  IF ~dbOk \/ Len(chunks) = 0
           THEN calls' = [calls EXCEPT ![c].pc = "done", ![c].err = TRUE]
           ELSE LET startIdx == BookChunk[chunks[1]].index
                    endIdx == BookChunk[chunks[Len(chunks)]].index
                    hit == checkIfChunkGroupProcessed(groups, calls[c].book,
                                                      startIdx, endIdx)
                IN  calls' = [calls EXCEPT ![c].s = startIdx,
                                           ![c].e = endIdx,
                                           ![c].found = hit.found,
                                           ![c].pc = PmcAfterLookup(hit.found)]
  /\ UNCHANGED <<once, workers, jobs, clock, groups, runs, books,
                 chunkTTS, crashed>>

\* what can go wrong in lines 33-62; "hang": ffmpeg never exits, and
\* cmd.CombinedOutput() of line 60, started without a deadline, never returns
MergeOutcomes == {"write_fail", "list_fail", "ffmpeg_fail", "hang", "ok"}

\* a merge that reports success without running the engine
EngineSkipped(oc) == 0

\* lines 59-62: the compositing engine runs once the text and the list exist
EngineRuns(oc) == IF oc \in {"ffmpeg_fail", "hang", "ok"} THEN 1 ELSE 0

\* lines 33-62: merged text file, concat list, ffmpeg concat
PmcMerge(c) ==
  /\ ~crashed
  /\ calls[c].pc = "merge"
  /\ \E oc \in MergeOutcomes :
       calls' = [calls EXCEPT
                   ![c].wrote = (oc # "write_fail"),
                   ![c].ffmpeg = calls[c].ffmpeg + EngineRuns(oc),
                   ![c].err = (oc \notin {"ok", "hang"}),
                   ![c].pc = CASE oc = "ok" -> "save"
                               [] oc = "hang" -> "hung"
                               [] OTHER -> "done"]
  /\ UNCHANGED <<once, workers, jobs, clock, groups, runs, books,
                 chunkTTS, crashed>>

\* an activation of processSoundEffectsAndMerge(book, hash); pre is what the
\* precondition checks decided, lookup how the lookup by hash ended, events
\* how the event stage ended, ext counts the collaborator and compositing
\* stages started, result is how it ended
NewRun(by, bookID, contentHash, hash, audioPath) ==
  [by |-> by, id |-> bookID, contentHash |-> contentHash, hash |-> hash,
   audioPath |-> audioPath, pc |-> "start", pre |-> "", lookup |-> "",
   events |-> "", ext |-> 0, result |-> ""]

\* line 70, go processSoundEffectsAndMerge(book): the call names no hash, so
\* the hash the orchestrator receives ("?" until it first reads it) is unset
\* or the digest of the merged text
LaunchHashes == {"", "H2"}

\* lines 64-77: launch the orchestrator asynchronously, save the group row
PmcLaunchSave(c) ==
  /\ ~crashed
  /\ calls[c].pc = "save"
  /\ \E saveOk \in BOOLEAN :
       LET mergedAudio == MergedAudioPath(calls[c].book, calls[c].s, calls[c].e)
       IN  /\ runs' = Append(runs, NewRun(c, calls[c].book, "", "?", mergedAudio))
           /\ groups' = IF saveOk
                        THEN saveProcessedChunkGroup(groups, calls[c].book,
                                                     calls[c].s, calls[c].e,
                                                     mergedAudio)
                        ELSE groups
           /\ calls' = [calls EXCEPT ![c].run = Len(runs) + 1,
                                     ![c].saved = saveOk,
                                     ![c].err = ~saveOk,
                                     ![c].pc = "done"]
  /\ UNCHANGED <<once, workers, jobs, clock, books, chunkTTS, crashed>>

(***************************************************************************)
(* ProcessChunksTTSHandler (unnamed/part_008)                              *)
(***************************************************************************)
PageRequests ==
  { [book |-> 1, pages |-> <<1, 3>>],
    [book |-> 1, pages |-> <<1, 2>>],
    [book |-> 2, pages |-> <<1>>],
    [book |-> 2, pages |-> <<2>>],
    [book |-> 1, pages |-> <<>>] }

\* toZeroBasedIndexes
toZeroBasedIndexes(pages) == [i \in 1..Len(pages) |-> pages[i] - 1]

\* lines 24-26: chunks of the book at the pages' indexes, by index
ChunksAtPages(bookID, pages) ==
  SortByIndex({id \in ChunkIds :
                 /\ BookChunk[id].book = bookID
                 /\ BookChunk[id].index \in Range(toZeroBasedIndexes(pages))})

\* lines 17-37: the request passes validation
PagesAccepted(req, tts) ==
  /\ Len(req.pages) # 0
  /\ Len(req.pages) <= 2
  /\ Len(ChunksAtPages(req.book, req.pages)) = Len(req.pages)
  /\ \A id \in Range(ChunksAtPages(req.book, req.pages)) : tts[id] # "completed"

\* lines 12-37: validate the request; the handler then holds the chunks.  A
\* request that fails validation, or whose query fails, is answered 400.
ProcessChunksTTSHandler(req, dbOk) ==
  /\ ~crashed
  /\ IF dbOk /\ PagesAccepted(req, chunkTTS)
     THEN calls' = Append(calls,
                          [NewCall(0, req.book, ChunksAtPages(req.book, req.pages))
                             EXCEPT !.pc = "tts"])
     ELSE UNCHANGED calls
  /\ UNCHANGED <<once, workers, jobs, clock, groups, runs, books,
                 chunkTTS, crashed>>

(***************************************************************************)
(* ProcessChunksTTSHandler by chunk ids (unnamed/part_009)                 *)
(***************************************************************************)
IdRequests ==
  { <<1, 3>>, <<3>>, <<1, 4>>, <<3, 2>>, <<5>>, <<1, 1>>, <<>>, <<1, 2, 3>> }

\* line 23: the rows with id IN chunk_ids
ChunksWithIds(ids) == Range(ids) \cap ChunkIds

\* line 29: the book of the first row; the rows of an accepted request are
\* all of that book
FirstBook(ids) == BookChunk[CHOOSE id \in ChunksWithIds(ids) : TRUE].book

\* a validation that lets chunks of several books through
IdsAcceptedAnyBook(ids, tts) ==
  /\ Len(ids) # 0
  /\ Len(ids) <= 2
  /\ Cardinality(ChunksWithIds(ids)) = Len(ids)
  /\ \A id \in ChunksWithIds(ids) : tts[id] # "completed"

\* lines 16-34: the request passes validation
IdsAccepted(ids, tts) ==
  /\ Len(ids) # 0
  /\ Len(ids) <= 2
  /\ Cardinality(ChunksWithIds(ids)) = Len(ids)
  /\ \A id, first \in ChunksWithIds(ids) :
       /\ BookChunk[id].book = BookChunk[first].book
       /\ tts[id] # "completed"

\* lines 12-34 and 57: the accepted ids go to the synthesis, then to
\* processMergedChunks as they were sent
ProcessChunksTTSHandlerByIds(ids, dbOk) ==
  /\ ~crashed
  /\ IF dbOk /\ IdsAccepted(ids, chunkTTS)
     THEN calls' = Append(calls,
                          [NewCall(0, FirstBook(ids), ids) EXCEPT !.pc = "tts"])
     ELSE UNCHANGED calls
  /\ UNCHANGED <<once, workers, jobs, clock, groups, runs, books,
                 chunkTTS, crashed>>

\* the response: 200 once the chunks were accepted, else 400
Answer(kind, req, accepted) ==
  [kind |-> kind, req |-> req, code |-> IF accepted THEN 200 ELSE 400]
NoAnswer == [kind |-> "", req |-> <<>>, code |-> 0]

\* lines 39-55: synthesize each chunk (a failed chunk is marked and skipped),
\* then enter processMergedChunks
ConvertChunks(c) ==
  /\ ~crashed
  /\ calls[c].pc = "tts"
  /\ \E okSet \in SUBSET Range(calls[c].ids) :
       chunkTTS' = [id \in ChunkIds |->
                      IF id \in okSet THEN "completed"
                      ELSE IF id \in Range(calls[c].ids) THEN "failed"
                      ELSE chunkTTS[id]]
  /\ calls' = [calls EXCEPT ![c].pc = "lookup"]
  /\ UNCHANGED <<once, workers, jobs, clock, groups, runs, books,
                 crashed>>

(***************************************************************************)
(* processBookConversion (tts_processing.go): the whole-book conversion    *)
(* that launches the orchestrator directly.                                *)
(***************************************************************************)
ConversionOutcomes == {"read_fail", "tts_fail", "save_fail", "ok"}

\* updateBookStatus
updateBookStatus(bk, bookID, status) == [bk EXCEPT ![bookID].status = status]

\* lines 148-173; the launch at line 172 names no hash, the launch of
\* unnamed/part_007:62 passes book.ContentHash
processBookConversion(b) ==
  /\ ~crashed
  /\ \E oc \in ConversionOutcomes :
       CASE oc \in {"read_fail", "tts_fail"} ->
              /\ books' = updateBookStatus(books, b, "failed")
              /\ UNCHANGED runs
         [] oc = "save_fail" -> UNCHANGED <<books, runs>>
         [] OTHER ->
              /\ books' = [books EXCEPT ![b].audio = TTSPath(b),
                                        ![b].status = "TTS completed"]
              /\ \E h \in {"", books[b].hash} :
                   runs' = Append(runs, NewRun(0, b, books[b].hash, h, TTSPath(b)))
  /\ UNCHANGED <<once, workers, jobs, clock, calls, groups, chunkTTS,
                 crashed>>

\* unnamed/part_007:55-62: the per-page launch with the book row as stored,
\* go processSoundEffectsAndMerge(book, book.ContentHash, ...)
LaunchPageMerge(b) ==
  /\ ~crashed
  /\ runs' = Append(runs, NewRun(0, b, books[b].hash, books[b].hash,
                                 books[b].audio))
  /\ UNCHANGED <<once, workers, jobs, clock, calls, groups, books,
                 chunkTTS, crashed>>

(***************************************************************************)
(* processSoundEffectsAndMerge (unnamed/part_004), one action per stage.   *)
(***************************************************************************)
\* lines 393-410: what the precondition checks decide
Precheck(audioPath, textExists, audioExists) ==
  IF audioPath = NoPath THEN "no_audio_path"
  ELSE IF ~textExists THEN "no_text"
  ELSE IF ~audioExists THEN "no_audio_file"
  ELSE "go"

\* lines 395-410: the status written when a precondition fails ("" is none)
PrecheckStatus(pre) == IF pre = "no_audio_file" THEN "failed" ELSE ""

\* lines 389-410: backfill the content hash, check the preconditions.  The
\* files of a run launched by processMergedChunks were just written by it.
RunPrecheck(r) ==
  /\ ~crashed
  /\ runs[r].pc = "start"
  /\ \E textExists \in BOOLEAN, audioExists \in BOOLEAN,
        hash \in IF runs[r].hash = "?" THEN LaunchHashes ELSE {runs[r].hash} :
       /\ runs[r].by # 0 => textExists /\ audioExists
       /\ LET backfill == runs[r].contentHash = "" /\ hash # ""
              ch == IF backfill THEN hash ELSE runs[r].contentHash
              bk1 == IF backfill
                     THEN [books EXCEPT ![runs[r].id].hash = hash]
                     ELSE books
              pre == Precheck(runs[r].audioPath, textExists, audioExists)
          IN  /\ books' = IF PrecheckStatus(pre) # ""
                          THEN updateBookStatus(bk1, runs[r].id, PrecheckStatus(pre))
                          ELSE bk1
              /\ runs' = [runs EXCEPT
                            ![r].hash = hash,
                            ![r].contentHash = ch,
                            ![r].pre = pre,
                            ![r].result = IF pre = "go" THEN ""
                                          ELSE IF PrecheckStatus(pre) # ""
                                          THEN "failed" ELSE "skipped",
                            ![r].pc = IF pre = "go" THEN "dedup" ELSE "done"]
  /\ UNCHANGED <<once, workers, jobs, clock, calls, groups,
                 chunkTTS, crashed>>

\* a lookup by status alone
CompletedAnyHash(bk, h) == {b \in BookIDs : bk[b].status = "completed"}

\* line 418: rows with this content hash, an audio path and status completed
\* (audio_path is a Go string column, never NULL)
CompletedWithHash(bk, h) ==
  {b \in BookIDs : bk[b].hash = h /\ bk[b].status = "completed"}

\* a lookup that never finds a record
ExistingNone(bk, h) == 0

\* .First(&existing): the row with the lowest ID, 0 when none
ExistingByHash(bk, h) ==
  IF CompletedWithHash(bk, h) = {} THEN 0
  ELSE CHOOSE b \in CompletedWithHash(bk, h) :
         \A k \in CompletedWithHash(bk, h) : b <= k

\* lines 416-426: reuse the audio of a completed record with the same hash;
\* any error of the query, not only "record not found", goes on to synthesis
RunDedup(r) ==
  /\ ~crashed
  /\ runs[r].pc = "dedup"
  /\ \E dbOk \in BOOLEAN :
       LET existing == IF dbOk THEN ExistingByHash(books, runs[r].contentHash)
                       ELSE 0
       IN  IF existing # 0
           THEN /\ books' = [books EXCEPT
                               ![runs[r].id].audio = books[existing].audio,
                               ![runs[r].id].status = "completed (reused)"]
                /\ runs' = [runs EXCEPT ![r].pc = "done",
                                        ![r].lookup = "hit",
                                        ![r].result = "reused"]
           ELSE /\ runs' = [runs EXCEPT
                               ![r].pc = "prompt",
                               ![r].lookup = IF dbOk THEN "miss" ELSE "error"]
                /\ UNCHANGED books
  /\ UNCHANGED <<once, workers, jobs, clock, calls, groups,
                 chunkTTS, crashed>>

\* a stage error that is logged and not returned on
AfterStageContinue(ok, next) == next

\* the position after a stage whose error ends the run
AfterStage(ok, next) == IF ok THEN next ELSE "done"

\* a stage whose error is fatal: log, updateBookStatus(failed), return
FatalStage(r, pc, next, path) ==
  /\ ~crashed
  /\ runs[r].pc = pc
  /\ \E ok \in BOOLEAN :
       /\ runs' = [runs EXCEPT
                     ![r].ext = runs[r].ext + 1,
                     ![r].audioPath = IF ok /\ path # NoPath THEN path
                                      ELSE runs[r].audioPath,
                     ![r].result = IF ok THEN "" ELSE "failed",
                     ![r].pc = AfterStage(ok, next)]
       /\ books' = IF ok THEN books
                   ELSE updateBookStatus(books, runs[r].id, "failed")
  /\ UNCHANGED <<once, workers, jobs, clock, calls, groups,
                 chunkTTS, crashed>>

\* lines 428-434: generateOverallSoundPrompt
RunPrompt(r) == FatalStage(r, "prompt", "music", NoPath)

\* lines 435-440: generateSoundEffect, the music clip
RunMusic(r) == FatalStage(r, "music", "plan", NoPath)

\* mergeAudio lines 257-267 under lines 445-450: ffprobe and the segment
\* plan (generateSegmentInstructions returns an error without its API key
\* or its text file)
RunSegmentPlan(r) == FatalStage(r, "plan", "background", NoPath)

\* mergeAudio lines 268-271 under lines 445-450: the dynamic background
\* (generateDynamicBackgroundWithSegments)
RunBackground(r) == FatalStage(r, "background", "basemix", NoPath)

\* hash[:8] of line 273 panics on a hash shorter than 8 bytes
SlicePanics(hash) == HashLen(hash) < HashPrefixLen

\* mergeAudio lines 273-280 under lines 445-450: the base mix
RunBaseMix(r) ==
  IF SlicePanics(runs[r].hash)
  THEN /\ ~crashed
       /\ runs[r].pc = "basemix"
       /\ runs' = [runs EXCEPT ![r].pc = "panic"]
       /\ crashed' = TRUE
       /\ UNCHANGED <<once, workers, jobs, clock, calls, groups,
                      books, chunkTTS>>
  ELSE FatalStage(r, "basemix", "events",
                  MergedOutputPath(runs[r].id, runs[r].hash))

\* how the event stage can end
EventOutcomes == {"extract_fail", "overlay_fail", "ok"}

\* an event stage that takes the overlay path whatever happened
AfterEventsAlwaysFx(oc, baseMix, fxMix) == fxMix

\* lines 452-466: the final audio path after the event stage; baseMix is
\* kept unless extraction and overlay both succeed
AfterEvents(oc, baseMix, fxMix) == IF oc = "ok" THEN fxMix ELSE baseMix

\* lines 452-466: getTTSDuration, extractSoundEvents, overlaySoundEvents
RunEvents(r) ==
  /\ ~crashed
  /\ runs[r].pc = "events"
  /\ \E oc \in EventOutcomes :
       LET overlayPanics == oc # "extract_fail" /\ SlicePanics(runs[r].contentHash)
       IN  /\ runs' = [runs EXCEPT
                         ![r].events = oc,
                         ![r].ext = runs[r].ext
                                    + (IF oc = "extract_fail" THEN 1 ELSE 2),
                         ![r].audioPath =
                            IF overlayPanics THEN runs[r].audioPath
                            ELSE AfterEvents(oc, runs[r].audioPath,
                                             FinalWithFxPath(runs[r].id,
                                                             runs[r].contentHash)),
                         ![r].pc = IF overlayPanics THEN "panic" ELSE "persist"]
           /\ crashed' = overlayPanics
  /\ UNCHANGED <<once, workers, jobs, clock, calls, groups, books,
                 chunkTTS>>

\* lines 468-477: persist the final path with status completed, clean up
RunPersist(r) ==
  /\ ~crashed
  /\ runs[r].pc = "persist"
  /\ \E dbOk \in BOOLEAN :
       /\ books' = IF dbOk
                   THEN [books EXCEPT ![runs[r].id].audio = runs[r].audioPath,
                                      ![runs[r].id].status = "completed"]
                   ELSE books
       /\ runs' = [runs EXCEPT ![r].result = IF dbOk THEN "completed"
                                             ELSE "unsaved",
                               ![r].pc = "done"]
  /\ UNCHANGED <<once, workers, jobs, clock, calls, groups,
                 chunkTTS, crashed>>


(***************************************************************************)
(* Durations and timestamps are exact fractions of a second, [n, d] with   *)
(* d > 0 in lowest terms (the code computes them in float64).              *)
(***************************************************************************)
RECURSIVE Gcd(_, _)
Gcd(a, b) == IF b = 0 THEN a ELSE Gcd(b, a % b)

Rat(n, d) ==
  LET g == Gcd(IF n < 0 THEN -n ELSE n, d)
  IN  [n |-> n \div g, d |-> d \div g]
RatLT(a, b) == a.n * b.d < b.n * a.d
RatLE(a, b) == a.n * b.d <= b.n * a.d
RatAdd(a, b) == Rat(a.n * b.d + b.n * a.d, a.d * b.d)
RatSub(a, b) == Rat(a.n * b.d - b.n * a.d, a.d * b.d)
RatMulInt(k, a) == Rat(k * a.n, a.d)
RatDivInt(a, k) == Rat(a.n, a.d * k)

\* fmt.Sprintf("%.2f", x) for x >= 0, as a count of hundredths of a second
FormatCentis(x) == (200 * x.n + x.d) \div (2 * x.d)
\* int(x * 1000) for x >= 0
Millis(x) == (1000 * x.n) \div x.d
\* int(math.Ceil(x / 22.0)) for x >= 0
ClipsFor(x) == (x.n + ClipSeconds * x.d - 1) \div (ClipSeconds * x.d)

Segment(start, end, mood) == [start |-> start, end |-> end, mood |-> mood]

(***************************************************************************)
(* fallbackSegments and generateSegmentInstructions (unnamed/part_004)     *)
(***************************************************************************)
\* equal slices of exactly one clip length, the last one cut at the end
fallbackFixedClips(ttsDur) ==
  [k \in 1..ClipsFor(ttsDur) |->
     Segment(Rat((k - 1) * ClipSeconds, 1),
             IF RatLT(ttsDur, Rat(k * ClipSeconds, 1)) THEN ttsDur
             ELSE Rat(k * ClipSeconds, 1),
             "neutral")]

\* lines 99-112
fallbackSegments(ttsDur) ==
  LET n == ClipsFor(ttsDur)
      chunk == RatDivInt(ttsDur, n)
  IN  [k \in 1..n |->
         LET start == RatMulInt(k - 1, chunk)
             end == RatAdd(start, chunk)
         IN  Segment(start, IF RatLT(ttsDur, end) THEN ttsDur ELSE end,
                     "neutral")]

\* the segments the collaborator may name
SegA == Segment(Rat(0, 1), Rat(10, 1), "suspense")
SegB == Segment(Rat(10, 1), Rat(25, 1), "action")
SegC == Segment(Rat(25, 1), Rat(20, 1), "sad")
SegmentToken(t) ==
  CASE t = "A" -> SegA [] t = "B" -> SegB [] t = "C" -> SegC

\* message contents, as sequences of tokens: "[", "]" and "," are the JSON
\* punctuation, "A", "B", "C" are segment objects, " " is white space, "fence"
\* a code fence, "text" is anything else
Contents ==
  { <<"text">>,
    <<"[", "]">>,
    <<"null">>,
    <<"text", "[", "A", ",", "B", "]", "text">>,
    <<"[", "B", ",", "A", "]">>,
    <<"[", "C", "]">>,
    <<"[", "A", ",", "B">>,
    <<"[", "A", "B", "]">>,
    <<"]", "A", "[">>,
    <<" ", "null", " ">>,
    <<" ", "fence", "[", "A", "]", "fence", " ">>,
    <<"[", "A", "]", "text", "[", "B", "]">>,
    <<"[", "A", ",", "C", ",", "B", "]">> }

\* what the collaborator and the environment can answer
Responses ==
  { [kind |-> k, content |-> <<>>] :
      k \in {"no_key", "read_fail", "request_error", "bad_status",
             "decode_error", "no_choices"} }
  \cup { [kind |-> "content", content |-> c] : c \in Contents }

\* strings.Index(s, t) and strings.LastIndex(s, t), 1-based, 0 when absent
IndexOf(s, t) ==
  IF \E i \in 1..Len(s) : s[i] = t
  THEN CHOOSE i \in 1..Len(s) : s[i] = t /\ \A k \in 1..(i - 1) : s[k] # t
  ELSE 0
LastIndexOf(s, t) ==
  IF \E i \in 1..Len(s) : s[i] = t
  THEN CHOOSE i \in 1..Len(s) : s[i] = t /\ \A k \in (i + 1)..Len(s) : s[k] # t
  ELSE 0

RECURSIVE TrimLeft(_)
TrimLeft(c) ==
  IF Len(c) > 0 /\ Head(c) = " " THEN TrimLeft(Tail(c)) ELSE c
RECURSIVE TrimRight(_)
TrimRight(c) ==
  IF Len(c) > 0 /\ c[Len(c)] = " " THEN TrimRight(SubSeq(c, 1, Len(c) - 1))
  ELSE c
\* line 179: strings.TrimSpace
TrimSpace(c) == TrimRight(TrimLeft(c))

\* a cleanup that stops at the first "]" after the first "["
CleanToFirstClose(c) ==
  IF IndexOf(c, "[") > 0 /\ LastIndexOf(c, "]") > IndexOf(c, "[")
  THEN SubSeq(c, IndexOf(c, "["),
              CHOOSE j \in (IndexOf(c, "[") + 1)..Len(c) :
                /\ c[j] = "]"
                /\ \A k \in (IndexOf(c, "[") + 1)..(j - 1) : c[k] # "]")
  ELSE c

\* lines 180-185: keep the first "[" to the last "]" when there are both
CleanContent(c) ==
  IF IndexOf(c, "[") > 0 /\ LastIndexOf(c, "]") > IndexOf(c, "[")
  THEN SubSeq(c, IndexOf(c, "["), LastIndexOf(c, "]"))
  ELSE c

\* json.Unmarshal([]byte(trimmed), &segs): an array of objects, or null
\* (which leaves segs nil without an error); anything else is an error
ParseSegments(c) ==
  IF c = <<"null">> THEN [ok |-> TRUE, segs |-> <<>>]
  ELSE IF /\ Len(c) >= 2 /\ c[1] = "[" /\ c[Len(c)] = "]"
          /\ (Len(c) = 2 \/ Len(c) % 2 = 1)
          /\ \A i \in 2..(Len(c) - 1) :
               IF i % 2 = 0 THEN c[i] \in {"A", "B", "C"} ELSE c[i] = ","
  THEN [ok |-> TRUE,
        segs |-> [k \in 1..((Len(c) - 1) \div 2) |-> SegmentToken(c[2 * k])]]
  ELSE [ok |-> FALSE, segs |-> <<>>]

PlanResult(segs, err, source) == [segs |-> segs, err |-> err, source |-> source]

\* a fallback that reports the failure to the caller
FallbackError(ttsDur) == PlanResult(<<>>, "segmentation", "error")

\* lines 147, 153, 162, 166, 191: return fallbackSegments(ttsDur), nil
FallbackResult(ttsDur) == PlanResult(fallbackSegments(ttsDur), "", "fallback")

\* a planner that falls back when it has no key or no text
generateSegmentInstructionsLenient(ttsDur, resp) ==
  IF resp.kind # "content" THEN FallbackResult(ttsDur)
  ELSE IF ParseSegments(CleanContent(TrimSpace(resp.content))).ok
  THEN PlanResult(ParseSegments(CleanContent(TrimSpace(resp.content))).segs,
                  "", "collaborator")
  ELSE FallbackResult(ttsDur)

\* lines 115-194
generateSegmentInstructions(ttsDur, resp) ==
  CASE resp.kind = "no_key" -> PlanResult(<<>>, "OPENAI_API_KEY not set", "error")
    [] resp.kind = "read_fail" -> PlanResult(<<>>, "read book", "error")
    [] resp.kind \in {"request_error", "bad_status", "decode_error", "no_choices"}
         -> FallbackResult(ttsDur)
    [] OTHER ->
         IF ParseSegments(CleanContent(TrimSpace(resp.content))).ok
         THEN PlanResult(ParseSegments(CleanContent(TrimSpace(resp.content))).segs,
                         "", "collaborator")
         ELSE FallbackResult(ttsDur)

(***************************************************************************)
(* generateDynamicBackgroundWithSegments (unnamed/part_004)                *)
(***************************************************************************)
\* a clip that starts with the music
ClipNoDelay(seg) ==
  [delay |-> 0,
   centis |-> FormatCentis(RatAdd(seg.start, RatSub(seg.end, seg.start)))]

\* lines 199-219: the clip of a segment: silence up to its start, then the
\* looped music, cut at -t %.2f of start + (end - start)
ClipOf(seg) ==
  [delay |-> Millis(seg.start),
   centis |-> FormatCentis(RatAdd(seg.start, RatSub(seg.end, seg.start)))]

RECURSIVE SegmentClips(_)
\* lines 199-219: one clip per segment of positive length, in order
SegmentClips(segs) ==
  IF Len(segs) = 0 THEN <<>>
  ELSE IF RatLE(Head(segs).end, Head(segs).start) THEN SegmentClips(Tail(segs))
  ELSE <<ClipOf(Head(segs))>> \o SegmentClips(Tail(segs))

RECURSIVE SumCentis(_)
\* line 230: the length of the concatenation of the clips
SumCentis(clips) ==
  IF Len(clips) = 0 THEN 0 ELSE Head(clips).centis + SumCentis(Tail(clips))

RECURSIVE MusicSpans(_, _, _)
\* lines 229-239: where the music is heard in the concatenation of the
\* clips cut at centis, in milliseconds from its start: each clip follows
\* the one before it and begins with its own silence
MusicSpans(clips, offset, centis) ==
  IF Len(clips) = 0 THEN <<>>
  ELSE LET from == offset + Head(clips).delay
           till == offset + 10 * Head(clips).centis
           cut == IF till < 10 * centis THEN till ELSE 10 * centis
       IN  (IF from < cut THEN <<[from |-> from, to |-> cut]>> ELSE <<>>)
             \o MusicSpans(Tail(clips), till, centis)

\* a second pass that copies without trimming
NoTrim(staged, centis) == staged

\* lines 235-239: atrim=duration=%.2f keeps at most that much
TrimDuration(staged, centis) == IF staged < centis THEN staged ELSE centis

\* the ffmpeg step that exits non-zero, if any
BackgroundFailures == {"none", "segment", "concat", "trim"}

\* lines 197-243: the track returned ("" on an error), the clips listed for
\* the concat, and the lengths of the staged and the returned track in
\* hundredths of a second; the concat of no clip at all fails
generateDynamicBackgroundWithSegments(ttsDur, segs, fail) ==
  LET clips == SegmentClips(segs)
      staged == SumCentis(clips)
  IN  IF fail = "segment" /\ Len(clips) > 0
      THEN [track |-> "", err |-> "segment fail", clips |-> <<>>,
            staged |-> 0, centis |-> 0, music |-> <<>>]
      ELSE IF fail = "concat" \/ Len(clips) = 0
      THEN [track |-> "", err |-> "concat fail", clips |-> clips,
            staged |-> 0, centis |-> 0, music |-> <<>>]
      ELSE IF fail = "trim"
      THEN [track |-> "", err |-> "trim fail", clips |-> clips,
            staged |-> staged, centis |-> 0, music |-> <<>>]
      ELSE [track |-> "./dynamic_background_final.ogg", err |-> "",
            clips |-> clips, staged |-> staged,
            centis |-> TrimDuration(staged, FormatCentis(ttsDur)),
            music |-> MusicSpans(clips, 0,
                                 TrimDuration(staged, FormatCentis(ttsDur)))]

\* the narration lengths tried
Durations ==
  { Rat(1, 1), Rat(22, 1), Rat(45, 2), Rat(46004, 1000), Rat(50, 1),
    Rat(131, 2) }

NoBackground ==
  [track |-> "", err |-> "", clips |-> <<>>, staged |-> 0, centis |-> 0,
   music |-> <<>>]
NoPlan == PlanResult(<<>>, "", "")

\* lines 264-267 and 271 under lines 445-450: an error of mergeAudio is
\* answered with updateBookStatus(failed)
StatusAfterMergeAudio(err) == IF err = "" THEN "" ELSE "failed"

\* mergeAudio lines 264-267
PlanSegments ==
  /\ plan.pc = "segments"
  /\ plan' = [plan EXCEPT
                !.pc = IF generateSegmentInstructions(plan.dur, plan.resp).err = ""
                       THEN "background" ELSE "done",
                !.seg = generateSegmentInstructions(plan.dur, plan.resp),
                !.status = StatusAfterMergeAudio(
                             generateSegmentInstructions(plan.dur, plan.resp).err)]
  /\ UNCHANGED <<serviceVars, mixVars>>

\* mergeAudio lines 268-271
BuildBackground ==
  /\ plan.pc = "background"
  /\ \E fail \in BackgroundFailures :
       plan' = [plan EXCEPT
                  !.pc = "done",
                  !.bg = generateDynamicBackgroundWithSegments(
                           plan.dur, plan.seg.segs, fail),
                  !.status = StatusAfterMergeAudio(
                               generateDynamicBackgroundWithSegments(
                                 plan.dur, plan.seg.segs, fail).err)]
  /\ UNCHANGED <<serviceVars, mixVars>>


(***************************************************************************)
(* getOrGenerateEffect and overlaySoundEvents (unnamed/part_004)           *)
(***************************************************************************)
\* the event types a narration may hold (keys of effectPrompts)
EventTypes == {"door_creak", "thunder"}

\* EventMap values: event type -> timestamps in seconds
NoEvents == [e \in {} |-> <<>>]
EventMaps ==
  { NoEvents,
    [e \in {"door_creak"} |-> <<Rat(3, 2), Rat(70, 1)>>],
    [e \in EventTypes |->
       IF e = "door_creak" THEN <<>> ELSE <<Rat(2, 1)>>],
    [e \in EventTypes |->
       IF e = "door_creak" THEN <<Rat(1, 1)>> ELSE <<Rat(3, 1), Rat(17, 4)>>] }

\* generateSoundEffect line 79: ./audio/sound_effect_<type>.mp3
ClipPath(evt) == <<"sound_effect", evt>>
\* the value of a type the map has no entry for
NoClip == <<>>
\* the base mix handed to the k-th activation (mergeAudio's outFile)
BaseMix(k) == <<"merged_output", k>>
\* lengths in milliseconds: the base mix, and a clip (DurationSeconds: 22)
BaseMixMillis == 60000
EffectMillis == 22000
FileMillis(f) == IF f[1] = "merged_output" THEN BaseMixMillis ELSE EffectMillis

\* fmt.Sprintf("[%d:a]", i) and fmt.Sprintf("[e%d_%d]", i, j)
InLabel(i) == <<"a", i>>
OutLabel(i, j) == <<"e", i, j>>

\* lines 484-486
NewOverlay(k, events) ==
  [pc |-> "loop", events |-> events, todo |-> DOMAIN events, cur |-> "",
   failed |-> {}, args |-> <<BaseMix(k)>>, filters |-> <<>>, labels |-> <<>>,
   inputIdx |-> 1, amixIn |-> <<>>, totalIn |-> 0, duration |-> "",
   ffmpegOk |-> FALSE, result |-> ""]

\* lines 492-500: the clip becomes the next input and every occurrence gets
\* a delayed copy of it, labelled after the input
AddClip(o, evt, clip) ==
  LET times == o.events[evt]
      outs == [j \in 1..Len(times) |-> OutLabel(o.inputIdx, j - 1)]
  IN  [o EXCEPT
         !.pc = "loop", !.cur = "", !.todo = o.todo \ {evt},
         !.args = Append(o.args, clip),
         !.filters = o.filters \o
            [j \in 1..Len(times) |->
               [in |-> InLabel(o.inputIdx), delay |-> Millis(times[j]),
                out |-> outs[j]]],
         !.labels = o.labels \o outs,
         !.inputIdx = o.inputIdx + 1]

\* a skipped type that still uses up an input index
IdxAfterFailureBump(idx) == idx + 1

\* lines 487-490: continue, before the input is added and the index moves
IdxAfterFailure(idx) == idx

SkipType(o, evt) ==
  [o EXCEPT !.pc = "loop", !.cur = "", !.todo = o.todo \ {evt},
            !.failed = o.failed \cup {evt},
            !.inputIdx = IdxAfterFailure(o.inputIdx)]

\* the base mix after the event copies
AmixEventsFirst(labels) == labels \o <<InLabel(0)>>

\* line 502: amixIn := "[0:a]" + strings.Join(labels, "")
AmixInputs(labels) == <<InLabel(0)>> \o labels

\* mergeAudio's caller, line 459: one more merge reaches the overlay
StartOverlay(events) ==
  /\ ~raceFatal
  /\ overlays' = Append(overlays, NewOverlay(Len(overlays) + 1, events))
  /\ UNCHANGED <<serviceVars, plan, effectCache, effectCalls, raceFatal>>

\* lines 486 and 369-371: the next type of the map, in any order, and the
\* read of the cache
EffectLookup(k) ==
  /\ ~raceFatal
  /\ overlays[k].pc = "loop"
  /\ \E evt \in overlays[k].todo :
       overlays' = [overlays EXCEPT ![k] =
          IF effectCache[evt] # NoClip
          THEN AddClip(overlays[k], evt, effectCache[evt])
          ELSE [overlays[k] EXCEPT !.pc = "generate", !.cur = evt]]
  /\ UNCHANGED <<serviceVars, plan, effectCache, effectCalls, raceFatal>>

\* lines 372-379: the call to the collaborator, and the skip when it fails
EffectGenerate(k) ==
  /\ ~raceFatal
  /\ overlays[k].pc = "generate"
  /\ effectCalls' = [effectCalls EXCEPT ![overlays[k].cur] = @ + 1]
  /\ \E ok \in BOOLEAN :
       overlays' = [overlays EXCEPT ![k] =
          IF ok THEN [overlays[k] EXCEPT !.pc = "store"]
          ELSE SkipType(overlays[k], overlays[k].cur)]
  /\ UNCHANGED <<serviceVars, plan, effectCache, raceFatal>>

\* another activation is reading or about to write the map
OtherInMap(k) ==
  \E j \in 1..Len(overlays) :
    /\ j # k
    /\ \/ overlays[j].pc = "store"
       \/ overlays[j].pc = "loop" /\ overlays[j].todo # {}

\* a write that empties the map before it adds the entry
StoreAlone(cache, evt, path) ==
  [e \in DOMAIN cache |-> IF e = evt THEN path ELSE NoClip]

\* line 380: effectCache[eventType] = path
StoreEffect(cache, evt, path) == [cache EXCEPT ![evt] = path]

\* lines 380-381: the write of the cache; the map has no lock, so a write
\* that meets another access either goes through or stops the process
EffectStore(k) ==
  /\ ~raceFatal
  /\ overlays[k].pc = "store"
  /\ \/ /\ effectCache' = StoreEffect(effectCache, overlays[k].cur,
                                        ClipPath(overlays[k].cur))
        /\ overlays' = [overlays EXCEPT ![k] =
             AddClip(overlays[k], overlays[k].cur, ClipPath(overlays[k].cur))]
        /\ UNCHANGED raceFatal
     \/ /\ OtherInMap(k)
        /\ raceFatal' = TRUE
        /\ UNCHANGED <<effectCache, overlays>>
  /\ UNCHANGED <<serviceVars, plan, effectCalls>>

\* lines 502-515: the mix of the base with every delayed copy
OverlayMix(k) ==
  /\ ~raceFatal
  /\ overlays[k].pc = "loop" /\ overlays[k].todo = {}
  /\ \E ok \in BOOLEAN :
       overlays' = [overlays EXCEPT ![k] =
          [overlays[k] EXCEPT
             !.pc = "done",
             !.amixIn = AmixInputs(overlays[k].labels),
             !.totalIn = 1 + Len(overlays[k].labels),
             !.duration = "first",
             !.ffmpegOk = ok,
             !.result = IF ok THEN "final_with_fx" ELSE "FFmpeg fail"]]
  /\ UNCHANGED <<serviceVars, plan, effectCache, effectCalls, raceFatal>>


(***************************************************************************)
(* processMergedChunks lines 14-62, the artifacts it computes               *)
(***************************************************************************)
\* the Content of a chunk row, as one token
ChunkContent(id) == <<"content", id>>

\* the AudioPath of the chunk rows: the .mp3 convertTextToAudio writes, ""
\* for a chunk never synthesized, another format for chunk 2
AudioTables ==
  { [id \in ChunkIds |-> [name |-> id, ext |-> ".mp3"]],
    [id \in ChunkIds |->
       [name |-> id, ext |-> IF id = 2 THEN ".ogg" ELSE ".mp3"]],
    [id \in ChunkIds |->
       IF id \in {1, 4} THEN [name |-> 0, ext |-> ""]
       ELSE [name |-> id, ext |-> ".mp3"]] }

\* line 17: the rows with id IN chunkIDs, ORDER BY index; rows with equal
\* index come in either order
IndexOrders(S) ==
  { q \in [1..Cardinality(S) -> S] :
      /\ \A i, j \in 1..Cardinality(S) : i # j => q[i] # q[j]
      /\ \A i \in 1..(Cardinality(S) - 1) :
           BookChunk[q[i]].index <= BookChunk[q[i + 1]].index }

RECURSIVE MergedText(_)
\* lines 34-37: mergedText += ch.Content + "\n"
MergedText(chunks) ==
  IF Len(chunks) = 0 THEN <<>>
  ELSE <<ChunkContent(chunks[1]), "\n">> \o MergedText(Tail(chunks))

RECURSIVE AudioListAll(_, _)
\* a list that names every chunk's audio
AudioListAll(chunks, audio) ==
  IF Len(chunks) = 0 THEN <<>>
  ELSE <<audio[chunks[1]]>> \o AudioListAll(Tail(chunks), audio)

RECURSIVE AudioList(_, _)
\* lines 49-55: one line per chunk whose AudioPath ends in .mp3
AudioList(chunks, audio) ==
  IF Len(chunks) = 0 THEN <<>>
  ELSE (IF audio[chunks[1]].ext = ".mp3" THEN <<audio[chunks[1]]>> ELSE <<>>)
         \o AudioList(Tail(chunks), audio)

NoGroup ==
  [pc |-> "idle", book |-> 0, ids |-> {}, audio |-> <<>>, chunks |-> <<>>,
   s |-> 0, e |-> 0, text |-> <<>>, textFile |-> NoPath, list |-> <<>>,
   mergedAudio |-> NoPath, err |-> ""]

\* lines 15-25: fetch, and the key from the first and the last row
GroupFetch ==
  /\ group.pc = "fetch"
  /\ \E dbOk \in BOOLEAN :
       IF ~dbOk THEN group' = [group EXCEPT !.pc = "done", !.err = "fetch"]
       ELSE IF group.ids = {}
       THEN group' = [group EXCEPT !.pc = "done", !.err = "no chunks found"]
       ELSE \E q \in IndexOrders(group.ids) :
              group' = [group EXCEPT
                          !.pc = "text", !.chunks = q,
                          !.s = BookChunk[q[1]].index,
                          !.e = BookChunk[q[Len(q)]].index]
  /\ UNCHANGED <<once, workers, jobs, clock, calls, groups, runs, books,
                 chunkTTS, crashed, reply, workdir, answer, builds,
                 tempdir, trip, plan, mixVars>>

\* lines 33-41: the merged text and its file
GroupText ==
  /\ group.pc = "text"
  /\ \E ok \in BOOLEAN :
       IF ~ok THEN group' = [group EXCEPT !.pc = "done", !.err = "write"]
       ELSE group' = [group EXCEPT
                        !.pc = "audio",
                        !.text = MergedText(group.chunks),
                        !.textFile = TextFilePath(group.book, group.s, group.e)]
  /\ UNCHANGED <<once, workers, jobs, clock, calls, groups, runs, books,
                 chunkTTS, crashed, reply, workdir, answer, builds,
                 tempdir, trip, plan, mixVars>>

\* lines 43-62: the concat list and the merged audio
GroupAudio ==
  /\ group.pc = "audio"
  /\ \E oc \in {"list_fail", "ffmpeg_fail", "ok"} :
       CASE oc = "list_fail" ->
              group' = [group EXCEPT !.pc = "done", !.err = "list"]
         [] oc = "ffmpeg_fail" ->
              group' = [group EXCEPT
                          !.pc = "done", !.err = "ffmpeg",
                          !.list = AudioList(group.chunks, group.audio)]
         [] OTHER ->
              group' = [group EXCEPT
                          !.pc = "done",
                          !.list = AudioList(group.chunks, group.audio),
                          !.mergedAudio =
                             MergedAudioPath(group.book, group.s, group.e)]
  /\ UNCHANGED <<once, workers, jobs, clock, calls, groups, runs, books,
                 chunkTTS, crashed, reply, workdir, answer, builds,
                 tempdir, trip, plan, mixVars>>

(***************************************************************************)
(* The transient files of the background track (unnamed/part_004): the     *)
(* clips ./dyn_seg_%d.ogg and the list ./dyn_list.txt have the same names  *)
(* in every merge, and cleanupTempFiles removes them by those names.       *)
(***************************************************************************)
MaxBuilds == 2

NoTemp == [segs |-> 0, list |-> 0]

\* lines 519-526: remove dyn_seg_*.ogg and dyn_list.txt
cleanupTempFiles(t) == NoTemp

\* mergeAudio line 268 is reached by a merge
StartBuild ==
  /\ builds' = Append(builds, [pc |-> "clips", read |-> 0, err |-> ""])
  /\ UNCHANGED tempdir

\* lines 198-219: write the clips dyn_seg_0.ogg, dyn_seg_1.ogg, ...
WriteClips(k) ==
  /\ builds[k].pc = "clips"
  /\ \E ok \in BOOLEAN :
       IF ok
       THEN /\ builds' = [builds EXCEPT ![k].pc = "list"]
            /\ tempdir' = [tempdir EXCEPT !.segs = k]
       ELSE /\ builds' = [builds EXCEPT ![k].pc = "done", ![k].err = "segment"]
            /\ UNCHANGED tempdir

\* lines 221-227: write dyn_list.txt
WriteList(k) ==
  /\ builds[k].pc = "list"
  /\ builds' = [builds EXCEPT ![k].pc = "concat"]
  /\ tempdir' = [tempdir EXCEPT !.list = k]

\* lines 229-232: ffmpeg reads the list and the clips it names; it fails
\* when one of them is not there, and can fail otherwise
ConcatClips(k) ==
  /\ builds[k].pc = "concat"
  /\ \E ok \in BOOLEAN :
       IF ok /\ tempdir.list # 0 /\ tempdir.segs # 0
       THEN builds' = [builds EXCEPT ![k].pc = "rest", ![k].read = tempdir.segs]
       ELSE builds' = [builds EXCEPT
                         ![k].pc = "done",
                         ![k].err = IF tempdir.list = 0 \/ tempdir.segs = 0
                                    THEN "missing" ELSE "concat"]
  /\ UNCHANGED tempdir

\* lines 234-243 and what follows in mergeAudio and the orchestrator up to
\* line 476: the merge goes on to its end or returns on a failure
RestOfMerge(k) ==
  /\ builds[k].pc = "rest"
  /\ \E ok \in BOOLEAN :
       builds' = [builds EXCEPT ![k].pc = IF ok THEN "cleanup" ELSE "done",
                                ![k].err = IF ok THEN "" ELSE "later"]
  /\ UNCHANGED tempdir

\* line 477: cleanupTempFiles(book.ID)
CleanupBuild(k) ==
  /\ builds[k].pc = "cleanup"
  /\ builds' = [builds EXCEPT ![k].pc = "done"]
  /\ tempdir' = cleanupTempFiles(tempdir)

(***************************************************************************)
(* The specification.                                                      *)
(***************************************************************************)
\* the books were uploaded with the same content (fileupload.go:86 sets the
\* content hash at upload)
InitialHash == "H1"

Init ==
  /\ once = FALSE
  /\ workers = <<>>
  /\ jobs = <<>>
  /\ clock = 0
  /\ calls = <<>>
  /\ groups = <<>>
  /\ runs = <<>>
  /\ books = [b \in BookIDs |->
                [status |-> "processing", audio |-> NoPath, hash |-> InitialHash]]
  /\ chunkTTS = [id \in ChunkIds |->
                   IF id \in {2, 4} THEN "completed" ELSE "pending"]
  /\ crashed = FALSE
  /\ reply = NoReply
  /\ workdir = NoFiles
  /\ answer = NoAnswer
  /\ group = NoGroup
  /\ plan = [pc |-> "idle", dur |-> Rat(1, 1),
             resp |-> [kind |-> "no_key", content |-> <<>>],
             seg |-> NoPlan, bg |-> NoBackground, status |-> ""]
  /\ effectCache = [e \in EventTypes |-> NoClip]
  /\ effectCalls = [e \in EventTypes |-> 0]
  /\ overlays = <<>>
  /\ raceFatal = FALSE
  /\ builds = <<>>
  /\ tempdir = NoTemp /\ trip = NoTrip

\* the worker's steps
WorkerStep ==
  \/ startTTSWorker
  \/ \E w \in 1..Len(workers) : WorkerSelect(w)
  \/ \E w \in 1..Len(workers) : WorkerSleep(w)
  \/ \E w \in 1..Len(workers) : WorkerFinish(w)

QueueStep ==
  \/ \E req \in SubmitRequests, dbOk \in BOOLEAN :
       /\ SubmitOutcome(req, groups, TRUE).enqueue => Work < MaxWork
       /\ streamAudioByChunkIDsHandler(req, dbOk)
  \/ WorkerStep

InteractiveStep ==
  \/ \E req \in PageRequests :
       /\ Work < MaxWork
       /\ PagesAccepted(req, chunkTTS)
       /\ ProcessChunksTTSHandler(req, TRUE)
  \/ \E c \in 1..Len(calls) : ConvertChunks(c)

ResolverStep ==
  \/ \E c \in 1..Len(calls) : PmcLookup(c)
  \/ \E c \in 1..Len(calls) : PmcMerge(c)
  \/ \E c \in 1..Len(calls) : PmcLaunchSave(c)

DirectStep ==
  \/ \E b \in BookIDs : Work < MaxWork /\ processBookConversion(b)
  \/ \E b \in BookIDs : Work < MaxWork /\ LaunchPageMerge(b)

MergeStep ==
  \/ \E r \in 1..Len(runs) : RunPrecheck(r)
  \/ \E r \in 1..Len(runs) : RunDedup(r)
  \/ \E r \in 1..Len(runs) : RunPrompt(r)
  \/ \E r \in 1..Len(runs) : RunMusic(r)
  \/ \E r \in 1..Len(runs) : RunSegmentPlan(r)
  \/ \E r \in 1..Len(runs) : RunBackground(r)
  \/ \E r \in 1..Len(runs) : RunBaseMix(r)
  \/ \E r \in 1..Len(runs) : RunEvents(r)
  \/ \E r \in 1..Len(runs) : RunPersist(r)

\* the queue, the interactive requests and the resolver: the merges are
\* launched and left at their start, since no action here reads what they
\* write (books, crashed apart)
Next == (QueueStep \/ InteractiveStep \/ ResolverStep) /\ UNCHANGED <<plan, mixVars, reply, workdir, answer, group, builds, tempdir, trip>>
Spec == Init /\ [][Next]_vars

\* the merges launched directly for a book
NextMerge == (DirectStep \/ MergeStep) /\ UNCHANGED <<plan, mixVars, reply, workdir, answer, group, builds, tempdir, trip>>
SpecMerge == Init /\ [][NextMerge]_vars

\* the queue with the merges its jobs launch
NextJobs == (QueueStep \/ ResolverStep \/ MergeStep) /\ UNCHANGED <<plan, mixVars, reply, workdir, answer, group, builds, tempdir, trip>>
SpecJobs == Init /\ [][NextJobs]_vars

\* the interactive requests with the merges they launch
NextChunks == (InteractiveStep \/ ResolverStep \/ MergeStep) /\ UNCHANGED <<plan, mixVars, reply, workdir, answer, group, builds, tempdir, trip>>
SpecChunks == Init /\ [][NextChunks]_vars

\* the run that completes the stage pc -> next in this step, 0 if none
StageDoneBy(pc, next) ==
  IF \E r \in 1..Len(runs) : runs[r].pc = pc /\ runs'[r].pc = next
  THEN CHOOSE r \in 1..Len(runs) : runs[r].pc = pc /\ runs'[r].pc = next
  ELSE 0

\* the writer of each file after the step
WorkdirAfter ==
  [music |-> IF StageDoneBy("music", "plan") # 0
             THEN StageDoneBy("music", "plan") ELSE workdir.music,
   bg |-> IF StageDoneBy("background", "basemix") # 0
          THEN StageDoneBy("background", "basemix") ELSE workdir.bg]

\* the orchestrator runs with the writers of the shared files on record
NextFiles ==
  /\ DirectStep \/ MergeStep
  /\ workdir' = WorkdirAfter
  /\ UNCHANGED <<plan, mixVars, reply, answer, group, builds, tempdir, trip>>
SpecFiles == Init /\ [][NextFiles]_vars

\* the interactive handlers with their responses on record, from every
\* assignment of TTS statuses to the chunks
InitInteractive ==
  /\ once = FALSE /\ workers = <<>> /\ jobs = <<>> /\ clock = 0
  /\ calls = <<>> /\ groups = <<>> /\ runs = <<>>
  /\ books = [b \in BookIDs |->
                [status |-> "processing", audio |-> NoPath, hash |-> InitialHash]]
  /\ chunkTTS \in [ChunkIds -> {"pending", "completed"}]
  /\ crashed = FALSE /\ reply = NoReply /\ workdir = NoFiles
  /\ answer = NoAnswer /\ group = NoGroup
  /\ plan = [pc |-> "idle", dur |-> Rat(1, 1),
             resp |-> [kind |-> "no_key", content |-> <<>>],
             seg |-> NoPlan, bg |-> NoBackground, status |-> ""]
  /\ effectCache = [e \in EventTypes |-> NoClip]
  /\ effectCalls = [e \in EventTypes |-> 0]
  /\ overlays = <<>>
  /\ raceFatal = FALSE
  /\ builds = <<>>
  /\ tempdir = NoTemp /\ trip = NoTrip
PagesAnswered ==
  \E req \in PageRequests, dbOk \in BOOLEAN :
    /\ PagesAccepted(req, chunkTTS) => Work < MaxWork
    /\ ProcessChunksTTSHandler(req, dbOk)
    /\ answer' = Answer("pages", req, dbOk /\ PagesAccepted(req, chunkTTS))
IdsAnswered ==
  \E ids \in IdRequests, dbOk \in BOOLEAN :
    /\ IdsAccepted(ids, chunkTTS) => Work < MaxWork
    /\ ProcessChunksTTSHandlerByIds(ids, dbOk)
    /\ answer' = Answer("ids", ids, dbOk /\ IdsAccepted(ids, chunkTTS))
NextInteractive ==
  \/ PagesAnswered /\ UNCHANGED <<plan, mixVars, reply, workdir, group, builds, tempdir, trip>>
  \/ IdsAnswered /\ UNCHANGED <<plan, mixVars, reply, workdir, group, builds, tempdir, trip>>
  \/ (\E c \in 1..Len(calls) : ConvertChunks(c))
       /\ UNCHANGED <<plan, mixVars, reply, workdir, answer, group, builds, tempdir, trip>>
SpecInteractive == InitInteractive /\ [][NextInteractive]_vars

\* processMergedChunks for every book, set of chunk ids and audio table
InitGroup ==
  /\ once = FALSE /\ workers = <<>> /\ jobs = <<>> /\ clock = 0
  /\ calls = <<>> /\ groups = <<>> /\ runs = <<>>
  /\ books = [b \in BookIDs |->
                [status |-> "processing", audio |-> NoPath, hash |-> InitialHash]]
  /\ chunkTTS = [id \in ChunkIds |->
                   IF id \in {2, 4} THEN "completed" ELSE "pending"]
  /\ crashed = FALSE /\ reply = NoReply /\ workdir = NoFiles
  /\ answer = NoAnswer
  /\ plan = [pc |-> "idle", dur |-> Rat(1, 1),
             resp |-> [kind |-> "no_key", content |-> <<>>],
             seg |-> NoPlan, bg |-> NoBackground, status |-> ""]
  /\ effectCache = [e \in EventTypes |-> NoClip]
  /\ effectCalls = [e \in EventTypes |-> 0]
  /\ overlays = <<>>
  /\ raceFatal = FALSE
  /\ builds = <<>>
  /\ tempdir = NoTemp /\ trip = NoTrip
  /\ \E b \in BookIDs, ids \in SUBSET ChunkIds, audio \in AudioTables :
       group = [NoGroup EXCEPT !.pc = "fetch", !.book = b, !.ids = ids,
                               !.audio = audio]
NextGroup == GroupFetch \/ GroupText \/ GroupAudio
SpecGroup == InitGroup /\ [][NextGroup]_vars

\* the merges that run at the same time, at the grain of their transient
\* files
NextTemp ==
  /\ \/ Len(builds) < MaxBuilds /\ StartBuild
     \/ \E k \in 1..Len(builds) : WriteClips(k)
     \/ \E k \in 1..Len(builds) : WriteList(k)
     \/ \E k \in 1..Len(builds) : ConcatClips(k)
     \/ \E k \in 1..Len(builds) : RestOfMerge(k)
     \/ \E k \in 1..Len(builds) : CleanupBuild(k)
  /\ UNCHANGED <<once, workers, jobs, clock, calls, groups, runs, books,
                 chunkTTS, crashed, reply, workdir, answer, group, trip,
                 plan, mixVars>>
SpecTemp == Init /\ [][NextTemp]_vars

\* streamByChunkIds.go:88-109 as one goroutine: the start from main, then
\* select, the steps of the processMergedChunks call (line 100) the loop is
\* inside, and the write of the final status
WorkerLoop ==
  /\ \/ startTTSWorker
     \/ \E w \in 1..Len(workers) : WorkerSelect(w)
     \/ \E w \in 1..Len(workers) :
          /\ workers[w].pc = "merge"
          /\ \/ PmcLookup(workers[w].call)
             \/ PmcMerge(workers[w].call)
             \/ PmcLaunchSave(workers[w].call)
     \/ \E w \in 1..Len(workers) : WorkerFinish(w)
  /\ UNCHANGED <<plan, mixVars, reply, workdir, answer, group, builds, tempdir, trip>>

\* the queue when every engine invocation returns and the goroutine of the
\* worker loop is scheduled whenever it can take a step
NextLive == Next /\ \A c \in 1..Len(calls') : calls'[c].pc # "hung"
SpecLive == Init /\ [][NextLive]_vars /\ WF_vars(WorkerLoop)

\* streamByChunkIds.go:63, ChunkIDs: joinUintSlice(req.ChunkIDs)
StoreChunkIDs ==
  /\ trip.pc = "join"
  /\ trip' = [trip EXCEPT !.column = joinUintSlice(trip.ids), !.pc = "parse"]

\* streamByChunkIds.go:98, chunkIDs := parseChunkIDs(job.ChunkIDs)
LoadChunkIDs ==
  /\ trip.pc = "parse"
  /\ trip' = [trip EXCEPT !.parsed = parseChunkIDs(trip.column), !.pc = "done"]

InitTrip ==
  /\ once = FALSE /\ workers = <<>> /\ jobs = <<>> /\ clock = 0
  /\ calls = <<>> /\ groups = <<>> /\ runs = <<>>
  /\ books = [b \in BookIDs |->
                [status |-> "processing", audio |-> NoPath, hash |-> InitialHash]]
  /\ chunkTTS = [id \in ChunkIds |->
                   IF id \in {2, 4} THEN "completed" ELSE "pending"]
  /\ crashed = FALSE /\ reply = NoReply /\ workdir = NoFiles
  /\ answer = NoAnswer /\ group = NoGroup
  /\ plan = [pc |-> "idle", dur |-> Rat(1, 1),
             resp |-> [kind |-> "no_key", content |-> <<>>],
             seg |-> NoPlan, bg |-> NoBackground, status |-> ""]
  /\ effectCache = [e \in EventTypes |-> NoClip]
  /\ effectCalls = [e \in EventTypes |-> 0]
  /\ overlays = <<>>
  /\ raceFatal = FALSE
  /\ builds = <<>>
  /\ tempdir = NoTemp
  /\ \E ids \in IdLists : trip = [NoTrip EXCEPT !.pc = "join", !.ids = ids]
NextTrip ==
  /\ StoreChunkIDs \/ LoadChunkIDs
  /\ UNCHANGED <<once, workers, jobs, clock, calls, groups, runs, books,
                 chunkTTS, crashed, reply, workdir, answer, group, builds,
                 tempdir, plan, mixVars>>
SpecTrip == InitTrip /\ [][NextTrip]_vars

\* the queue with the responses of the submission handler on record
SubmitAnswered ==
  \E req \in SubmitRequests, dbOk \in BOOLEAN :
    /\ SubmitOutcome(req, groups, TRUE).enqueue => Work < MaxWork
    /\ streamAudioByChunkIDsHandler(req, dbOk)
    /\ reply' = Reply(req, SubmitOutcome(req, groups, dbOk))
NextSubmit ==
  \/ SubmitAnswered /\ UNCHANGED <<plan, mixVars, workdir, answer, group, builds, tempdir, trip>>
  \/ (WorkerStep \/ ResolverStep) /\ UNCHANGED <<plan, mixVars, reply, workdir, answer, group, builds, tempdir, trip>>
SpecSubmit == Init /\ [][NextSubmit]_vars

\* the segment plan and the background track of one narration, for every
\* narration length and every answer of the collaborator tried
InitPlan ==
  /\ once = FALSE /\ workers = <<>> /\ jobs = <<>> /\ clock = 0
  /\ calls = <<>> /\ groups = <<>> /\ runs = <<>>
  /\ books = [b \in BookIDs |->
                [status |-> "processing", audio |-> NoPath, hash |-> InitialHash]]
  /\ chunkTTS = [id \in ChunkIds |->
                   IF id \in {2, 4} THEN "completed" ELSE "pending"]
  /\ crashed = FALSE
  /\ reply = NoReply
  /\ workdir = NoFiles
  /\ answer = NoAnswer
  /\ group = NoGroup
  /\ \E dur \in Durations, resp \in Responses :
       plan = [pc |-> "segments", dur |-> dur, resp |-> resp,
               seg |-> NoPlan, bg |-> NoBackground, status |-> ""]
  /\ effectCache = [e \in EventTypes |-> NoClip]
  /\ effectCalls = [e \in EventTypes |-> 0]
  /\ overlays = <<>>
  /\ raceFatal = FALSE
  /\ builds = <<>>
  /\ tempdir = NoTemp /\ trip = NoTrip
NextPlan == PlanSegments \/ BuildBackground
SpecPlan == InitPlan /\ [][NextPlan]_vars

\* the overlays of the merges of one process lifetime, sharing the cache
NextOverlay ==
  \/ \E events \in EventMaps :
       Len(overlays) < MaxOverlays /\ StartOverlay(events)
  \/ \E k \in 1..Len(overlays) : EffectLookup(k)
  \/ \E k \in 1..Len(overlays) : EffectGenerate(k)
  \/ \E k \in 1..Len(overlays) : EffectStore(k)
  \/ \E k \in 1..Len(overlays) : OverlayMix(k)
SpecOverlay == Init /\ [][NextOverlay]_vars

(***************************************************************************)
(* The claims.                                                             *)
(***************************************************************************)
Processing(js) == {j \in 1..Len(js) : js[j].status = "processing"}

\* the rows of the dedup store for the chunk range of these chunk ids
KeyRows(g, bookID, ids) ==
  LET chunks == FetchChunks(ids)
  IN  IF chunks = <<>> THEN {}
      ELSE GroupRows(g, bookID, BookChunk[chunks[1]].index,
                     BookChunk[chunks[Len(chunks)]].index)

\* C1: whenever the worker marks a job processing, no queued job was created
\* before it; hence of two jobs created at different times the later one
\* has left the queue only if the earlier one has.
C1_SelectsEarliestQueued ==
  [][ /\ \A j \in 1..Len(jobs) :
           (jobs[j].status = "queued" /\ jobs'[j].status = "processing")
             => \A k \in Queued(jobs) : jobs[j].created <= jobs[k].created
      /\ \A a, b \in 1..Len(jobs') :
           (jobs'[a].created < jobs'[b].created /\ jobs'[b].status # "queued")
             => jobs'[a].status # "queued" ]_vars

\* two jobs created at different times, both taken by the worker
C1_Witness ==
  \E a, b \in 1..Len(jobs) :
    /\ jobs[a].created < jobs[b].created
    /\ jobs[a].status \in {"complete", "failed"}
    /\ jobs[b].status = "processing"

C4_CompleteAfterRunEnds ==
  /\ \A c \in 1..Len(calls) :
       (calls[c].caller # 0 /\ calls[c].run # 0
          /\ jobs[calls[c].caller].status = "complete")
         => runs[calls[c].run].result \in {"completed", "reused"}
  /\ Cardinality({r \in 1..Len(runs) :
                    /\ runs[r].by # 0
                    /\ calls[runs[r].by].caller # 0
                    /\ runs[r].pc \notin {"done", "panic"}}) <= 1

\* C5: a lookup that finds a stored group ends processMergedChunks at once
\* with success: no engine run, no artifact write, no launch, no new row; the
\* handler answers a request for a stored group with the stored path (its
\* answer depends on the store alone, so it is examined whenever the store
\* changes) and creates no job; stored rows are never changed.
C5_StoredGroupReused ==
  [][ /\ \A c \in 1..Len(calls) :
           (/\ calls[c].pc = "lookup" /\ calls'[c].pc # "lookup"
            /\ ~calls'[c].err
            /\ KeyRows(groups, calls[c].book, calls[c].ids) # {})
             => calls'[c].found /\ groups' = groups /\ runs' = runs
      /\ \A c \in 1..Len(calls') :
           calls'[c].found
             => /\ calls'[c].pc = "done" /\ ~calls'[c].err
                /\ calls'[c].ffmpeg = 0 /\ ~calls'[c].wrote
                /\ calls'[c].run = 0 /\ ~calls'[c].saved
      /\ Len(jobs') > Len(jobs)
           => KeyRows(groups, jobs'[Len(jobs')].book,
                      parseChunkIDs(jobs'[Len(jobs')].chunkIDs)) = {}
      /\ groups' # groups =>
           \A req \in SubmitRequests :
             LET rows == KeyRows(groups', req.book, req.ids)
                 out == SubmitOutcome(req, groups', TRUE)
             IN  (/\ BindOK(req)
                  /\ Cardinality(ChunksOfBook(req.ids, req.book)) = Len(req.ids)
                  /\ rows # {})
                   => /\ out.code = 200
                      /\ ~out.enqueue
                      /\ \E i \in rows : out.file = groups'[i].path
      /\ \A i \in 1..Len(groups) : groups'[i] = groups[i] ]_vars

\* a call ended on a stored group and the handler would serve a stored file
C5_Witness ==
  /\ \E c \in 1..Len(calls) : calls[c].found /\ calls[c].pc = "done"
  /\ \E req \in SubmitRequests : SubmitOutcome(req, groups, TRUE).code = 200

C7_MissReservesNothing ==
  [][ /\ \A c \in 1..Len(calls) :
           (calls[c].pc = "lookup" /\ calls'[c].pc = "merge") => groups' = groups
      /\ \A c \in 1..Len(calls') :
           calls'[c].saved => ~calls'[c].found /\ calls'[c].ffmpeg = 1
      /\ \A r \in 1..Len(runs) :
           (runs[r].pc = "dedup" /\ runs'[r].pc = "prompt") => books' = books
      /\ \A r \in 1..Len(runs') :
           runs'[r].result = "completed"
             => runs'[r].lookup \in {"miss", "error"} /\ runs'[r].ext >= 6 ]_vars

\* two calls for one chunk range both missed, both ran the engine and both
\* saved; two runs for one content hash both missed and both synthesized
C7_Witness ==
  /\ \E c, d \in 1..Len(calls) :
       /\ c # d
       /\ calls[c].book = calls[d].book
       /\ calls[c].s = calls[d].s /\ calls[c].e = calls[d].e
       /\ calls[c].saved /\ calls[d].saved
       /\ calls[c].ffmpeg = 1 /\ calls[d].ffmpeg = 1
  /\ \E q, r \in 1..Len(runs) :
       /\ q # r
       /\ runs[q].contentHash = runs[r].contentHash
       /\ runs[q].contentHash # ""
       /\ runs[q].lookup = "miss" /\ runs[r].lookup = "miss"
       /\ runs[q].result = "completed" /\ runs[r].result = "completed"

\* the run's lookup by hash, taken as a step, reuses the completed record
ReusesCompleted(r) ==
  (/\ runs[r].pc = "dedup" /\ runs'[r].pc # "dedup"
   /\ CompletedWithHash(books, runs[r].contentHash) # {})
    => /\ \E b \in CompletedWithHash(books, runs[r].contentHash) :
            books'[runs[r].id].audio = books[b].audio
       /\ books'[runs[r].id].status = "completed (reused)"
       /\ runs'[r].pc = "done" /\ runs'[r].result = "reused"
       /\ runs'[r].ext = 0

C9_PreconditionFailureFails ==
  [][ \A r \in 1..Len(runs) :
        (runs[r].pc = "start" /\ runs'[r].pc # "start" /\ runs'[r].pre # "go")
          => /\ books'[runs[r].id].status = "failed"
             /\ runs'[r].pc = "done" /\ runs'[r].ext = 0 ]_vars

\* the stages in their order; done ends a run, panic ends the process
StageOrder ==
  { <<"start", "dedup">>, <<"start", "done">>,
    <<"dedup", "prompt">>, <<"dedup", "done">>,
    <<"prompt", "music">>, <<"prompt", "done">>,
    <<"music", "plan">>, <<"music", "done">>,
    <<"plan", "background">>, <<"plan", "done">>,
    <<"background", "basemix">>, <<"background", "done">>,
    <<"basemix", "events">>, <<"basemix", "done">>, <<"basemix", "panic">>,
    <<"events", "persist">>, <<"events", "panic">>,
    <<"persist", "done">> }

\* C10: a run moves through its stages only in the order prompt, music,
\* segment plan, background, base mix, events, persist; status completed is written only
\* by the persist stage, with the path of the base mix or of the overlay; a
\* run that failed in a stage has ended and starts no further stage.
C10_StagesInOrder ==
  [][ /\ \A r \in 1..Len(runs) :
           /\ runs'[r].pc # runs[r].pc
                => <<runs[r].pc, runs'[r].pc>> \in StageOrder
           /\ runs[r].pc = "done" => runs'[r] = runs[r]
      /\ \A r \in 1..Len(runs') :
           runs'[r].result = "failed" => runs'[r].pc = "done"
      /\ \A b \in BookIDs :
           (books'[b] # books[b] /\ books'[b].status = "completed")
             => \E r \in 1..Len(runs) :
                  /\ runs[r].id = b /\ runs[r].pc = "persist"
                  /\ runs[r].ext >= 6
                  /\ runs[r].audioPath.kind \in {"merged_output", "final_with_fx"}
                  /\ books'[b].audio = runs[r].audioPath ]_vars

\* one run went through every stage and completed, another failed in a stage
C10_Witness ==
  \E q, r \in 1..Len(runs) :
    /\ runs[q].result = "completed" /\ runs[q].ext >= 6
    /\ books[runs[q].id].status = "completed"
    /\ runs[r].result = "failed" /\ runs[r].ext >= 1

TerminalStatus == {"completed", "completed (reused)", "failed"}

\* C11: every step that ends a run, whether by a return or by a panic,
\* leaves the book's status completed, completed (reused) or failed.
C11_EveryEndSetsStatus ==
  [][ \A r \in 1..Len(runs) :
        (runs[r].pc \notin {"done", "panic"} /\ runs'[r].pc \in {"done", "panic"})
          => books'[runs[r].id].status \in TerminalStatus ]_vars

\* the event stage of a run, taken as a step: it writes no status, goes on
\* to persist, and hands on the overlay mix exactly when extraction and
\* overlay both succeeded, the base mix otherwise
EventStageDegrades(r) ==
  (runs[r].pc = "events" /\ runs'[r].pc # "events")
    => /\ books' = books
       /\ runs[r].audioPath = MergedOutputPath(runs[r].id, runs[r].hash)
       /\ runs'[r].pc = "persist"
       /\ runs'[r].result = ""
       /\ runs'[r].audioPath =
            IF runs'[r].events = "ok"
            THEN FinalWithFxPath(runs[r].id, runs[r].contentHash)
            ELSE runs[r].audioPath

C13_BackgroundFailureFallsBack ==
  [][ \A r \in 1..Len(runs) :
        (runs[r].pc = "background" /\ runs'[r].pc # "background")
          => runs'[r].result # "failed" ]_vars


(***************************************************************************)
(* The segment plan and the background track                               *)
(***************************************************************************)
Planned == plan.pc \in {"background", "done"}

\* a plan the background builder can use: some segment, each of positive
\* length, starts in order
WellFormedPlan(segs) ==
  /\ Len(segs) >= 1
  /\ \A i \in 1..Len(segs) : RatLT(segs[i].start, segs[i].end)
  /\ \A i \in 1..(Len(segs) - 1) : RatLE(segs[i].start, segs[i + 1].start)

\* C14: whatever the collaborator answers (malformed text, an empty array,
\* segments with end <= start, segments out of order), the planner returns a
\* non-empty list whose segments all have end > start and whose starts are
\* non-decreasing.
C14_PlanAlwaysWellFormed ==
  (Planned /\ plan.resp.kind \notin {"no_key", "read_fail"})
    => WellFormedPlan(plan.seg.segs)

\* the collaborator did not answer: the request failed, the status was not
\* 200, the body was not the JSON of a completion, or it held no choice
Unavailable(resp) ==
  resp.kind \in {"request_error", "bad_status", "decode_error", "no_choices"}

\* contents that are not a JSON array of segment objects once the text
\* around the outermost brackets is dropped
MalformedContents ==
  { <<"text">>, <<"[", "A", ",", "B">>, <<"[", "A", "B", "]">>,
    <<"]", "A", "[">> }

\* C15: when the collaborator is unavailable or its content does not parse
\* as a segment array, the planner returns exactly fallbackSegments(D) and
\* no error.
C15_UnavailableGivesFallback ==
  (Planned /\ (Unavailable(plan.resp)
               \/ (plan.resp.kind = "content"
                   /\ plan.resp.content \in MalformedContents)))
    => /\ plan.seg.err = ""
       /\ plan.seg.segs = fallbackSegments(plan.dur)

\* the fallback was taken for an array cut short before its closing
\* bracket, on a narration that needs three clips
C15_Witness ==
  /\ plan.pc = "background"
  /\ plan.resp.kind = "content" /\ plan.resp.content = <<"[", "A", ",", "B">>
  /\ Len(plan.seg.segs) = 3

\* the equal split of [0, D) in N = ceil(D / 22) pieces
EqualSplit(segs, D) ==
  LET N == Len(segs)
  IN  /\ N >= 1
      /\ RatLE(D, Rat(ClipSeconds * N, 1))
      /\ RatLT(Rat(ClipSeconds * (N - 1), 1), D)
      /\ \A k \in 1..N :
           /\ segs[k].mood = "neutral"
           /\ segs[k].start = Rat((k - 1) * D.n, N * D.d)
           /\ segs[k].end = Rat(k * D.n, N * D.d)
           /\ RatSub(segs[k].end, segs[k].start) = Rat(D.n, N * D.d)
           /\ RatLE(RatSub(segs[k].end, segs[k].start), Rat(ClipSeconds, 1))
      /\ segs[1].start = Rat(0, 1)
      /\ segs[N].end = D
      /\ \A k \in 1..(N - 1) : segs[k].end = segs[k + 1].start

Spans(segs, D) ==
  /\ WellFormedPlan(segs)
  /\ RatLE(segs[1].start, Rat(0, 1))
  /\ \A i \in 1..(Len(segs) - 1) : RatLE(segs[i + 1].start, segs[i].end)
  /\ RatLE(D, segs[Len(segs)].end)

BackgroundBuilt == plan.pc = "done" /\ plan.bg.track # ""

\* C17 as stated: for a segment list spanning [0, D) the staged track is at
\* least D long and the returned track is exactly D long.
C17_BackgroundLastsD ==
  (BackgroundBuilt /\ Spans(plan.seg.segs, plan.dur))
    => /\ RatLE(plan.dur, Rat(plan.bg.staged, 100))
       /\ Rat(plan.bg.centis, 100) = plan.dur

\* C17: for a segment list spanning [0, D) the staged track is at least as
\* long as D rounded to a hundredth of a second, and the returned track is
\* exactly that long, which is within 5 ms of D.
C17_BackgroundLastsRoundedD ==
  (BackgroundBuilt /\ Spans(plan.seg.segs, plan.dur))
    => /\ plan.bg.staged >= FormatCentis(plan.dur)
       /\ plan.bg.centis = FormatCentis(plan.dur)
       /\ RatLE(RatSub(Rat(plan.bg.centis, 100), plan.dur), Rat(1, 200))
       /\ RatLE(RatSub(plan.dur, Rat(plan.bg.centis, 100)), Rat(1, 200))

\* a track was built from three clips that add up to more than the
\* narration, and was cut to the narration's length
C17_Witness ==
  /\ BackgroundBuilt /\ Spans(plan.seg.segs, plan.dur)
  /\ Len(plan.seg.segs) = 3
  /\ plan.bg.staged > plan.bg.centis
  /\ plan.bg.centis = 5000


(***************************************************************************)
(* The sound-effect overlay                                                *)
(***************************************************************************)
\* the filter of an overlay whose output pad is lbl
FilterOf(o, lbl) ==
  CHOOSE i \in 1..Len(o.filters) : o.filters[i].out = lbl

\* the length of what a pad of the graph carries: an input file, or a copy
\* of an input file behind its delay
PadMillis(o, lbl) ==
  IF lbl[1] = "a" THEN FileMillis(o.args[lbl[2] + 1])
  ELSE o.filters[FilterOf(o, lbl)].delay
         + FileMillis(o.args[o.filters[FilterOf(o, lbl)].in[2] + 1])

\* the length of the output of amix: that of its first input with
\* duration=first, that of its longest input otherwise
MixMillis(o) ==
  IF o.duration = "first" THEN PadMillis(o, o.amixIn[1])
  ELSE CHOOSE m \in {PadMillis(o, o.amixIn[i]) : i \in 1..Len(o.amixIn)} :
         \A i \in 1..Len(o.amixIn) : PadMillis(o, o.amixIn[i]) <= m

Mixed(k) == overlays[k].pc = "done"

\* C18: whatever the EventMap, the graph mixes the base mix as first input
\* with duration=first, so the overlaid mix lasts as long as the base mix.
C18_OverlayKeepsBaseDuration ==
  \A k \in 1..Len(overlays) :
    Mixed(k) =>
      /\ overlays[k].args[1] = BaseMix(k)
      /\ overlays[k].amixIn[1] = InLabel(0)
      /\ overlays[k].duration = "first"
      /\ overlays[k].totalIn = Len(overlays[k].amixIn)
      /\ MixMillis(overlays[k]) = BaseMixMillis

\* an overlay with an occurrence after the end of the base mix, and one with
\* a type that has no occurrence, were both mixed
C18_Witness ==
  \E k, j \in 1..Len(overlays) :
    /\ Mixed(k) /\ overlays[k].ffmpegOk
    /\ \E i \in 1..Len(overlays[k].filters) :
         overlays[k].filters[i].delay > BaseMixMillis
    /\ Mixed(j) /\ overlays[j].ffmpegOk
    /\ Len(overlays[j].args) = 3 /\ Len(overlays[j].filters) = 1

\* C19: in one process lifetime the effect collaborator is called exactly
\* once for each event type requested, however often the type is requested
\* and whether the generations succeed or fail.
C19_OneCallPerType ==
  \A e \in EventTypes :
    /\ effectCalls[e] <= 1
    /\ effectCache[e] # NoClip => effectCalls[e] = 1

\* the input index of a type's clip among the arguments, 0 when absent
InputOf(o, evt) ==
  IF \E i \in 2..Len(o.args) : o.args[i] = ClipPath(evt)
  THEN (CHOOSE i \in 2..Len(o.args) : o.args[i] = ClipPath(evt)) - 1
  ELSE 0

RECURSIVE Occurrences(_, _)
\* the occurrences of the types in S
Occurrences(events, S) ==
  IF S = {} THEN 0
  ELSE LET e == CHOOSE x \in S : TRUE
       IN  Len(events[e]) + Occurrences(events, S \ {e})

\* C20: when the clip of a type cannot be generated, no occurrence of that
\* type is mixed, every occurrence of every other type is, each copy reads
\* the input that holds the clip of its own type, and the overlay does not
\* fail for it.
C20_FailedTypeSkipped ==
  \A k \in 1..Len(overlays) :
    Mixed(k) =>
      LET o == overlays[k]
      IN  /\ \A evt \in o.failed : InputOf(o, evt) = 0
          /\ \A evt \in (DOMAIN o.events) \ o.failed :
               /\ InputOf(o, evt) > 0
               /\ \A j \in 1..Len(o.events[evt]) :
                    \E i \in 1..Len(o.filters) :
                      /\ o.filters[i].in = InLabel(InputOf(o, evt))
                      /\ o.filters[i].delay = Millis(o.events[evt][j])
                      /\ o.filters[i].out = OutLabel(InputOf(o, evt), j - 1)
                      /\ \E l \in 2..Len(o.amixIn) :
                           o.amixIn[l] = o.filters[i].out
          /\ Len(o.filters) = Occurrences(o.events, (DOMAIN o.events) \ o.failed)
          /\ Len(o.amixIn) = 1 + Len(o.filters)
          /\ \A i \in 1..Len(o.filters) :
               o.filters[i].in[2] \in 1..(Len(o.args) - 1)
          /\ o.ffmpegOk => o.result = "final_with_fx"

\* the clip of door_creak failed, and both occurrences of thunder were
\* mixed from input 1
C20_Witness ==
  \E k \in 1..Len(overlays) :
    /\ Mixed(k) /\ overlays[k].result = "final_with_fx"
    /\ overlays[k].failed = {"door_creak"}
    /\ Len(overlays[k].filters) = 2
    /\ overlays[k].args[2] = ClipPath("thunder")


\* C21: an entry of the effect cache is never removed or changed, and an
\* entry appears only when an activation that missed the cache and whose
\* generation succeeded stores the path of the generated clip.
C21_CacheOnlyGrows ==
  [][ \A e \in EventTypes :
        /\ effectCache[e] # NoClip => effectCache'[e] = effectCache[e]
        /\ (effectCache[e] = NoClip /\ effectCache'[e] # NoClip)
             => /\ effectCache'[e] = ClipPath(e)
                /\ effectCalls[e] >= 1
                /\ \E k \in 1..Len(overlays) :
                     /\ overlays[k].pc = "store" /\ overlays[k].cur = e
                     /\ overlays'[k].pc = "loop" ]_vars

\* both types are cached and a later overlay took door_creak from the cache
\* although the first generation of it had failed
C21_Witness ==
  /\ \A e \in EventTypes : effectCache[e] = ClipPath(e)
  /\ \E k \in 1..Len(overlays) :
       /\ overlays[k].pc = "done" /\ overlays[k].failed = {"door_creak"}
  /\ \E k \in 1..Len(overlays) :
       /\ overlays[k].pc = "done" /\ overlays[k].failed = {}
       /\ InputOf(overlays[k], "door_creak") > 0


(***************************************************************************)
(* The queue and the handlers, continued                                   *)
(***************************************************************************)
\* the activations of processMergedChunks made for job j, and the runs of
\* the orchestrator launched by activation c
CallsOfJob(cs, j) == {c \in 1..Len(cs) : cs[c].caller = j}
RunsOfCall(rs, c) == {r \in 1..Len(rs) : rs[r].by = c}

SubmitStep == reply' # reply \/ Len(jobs') # Len(jobs)

\* C23: a submission validates, looks the group up and inserts at most one
\* job: it starts no activation of processMergedChunks, no orchestrator run
\* and no synthesis, touches no chunk, group or book, and when it answers
\* 202 the job it created is still queued and no worker has taken it.
C23_SubmitOnlyEnqueues ==
  [][ SubmitStep =>
        /\ calls' = calls /\ runs' = runs /\ workers' = workers
        /\ chunkTTS' = chunkTTS /\ groups' = groups /\ books' = books
        /\ Len(jobs') \in {Len(jobs), Len(jobs) + 1}
        /\ SubSeq(jobs', 1, Len(jobs)) = jobs
        /\ reply'.code = 202 <=> Len(jobs') = Len(jobs) + 1
        /\ reply'.code = 202 =>
             /\ jobs'[Len(jobs')].status = "queued"
             /\ CallsOfJob(calls', Len(jobs')) = {}
             /\ \A w \in 1..Len(workers') : workers'[w].job # Len(jobs') ]_vars

\* a submission was answered 202 while the worker was inside
\* processMergedChunks for an earlier job, and the new job is still queued
C23_Witness ==
  /\ reply.code = 202
  /\ Len(jobs) = 2 /\ jobs[2].status = "queued"
  /\ \E w \in 1..Len(workers) :
       /\ workers[w].job = 1
       /\ calls[workers[w].call].pc = "merge"

\* what the claim lists as grounds for rejection
NoOrTooManyIds(req) == Len(req.ids) = 0 \/ Len(req.ids) > MaxChunkIDs
SomeChunkMissing(req) ==
  \E i \in 1..Len(req.ids) :
    req.ids[i] \notin ChunkIds \/ BookChunk[req.ids[i]].book # req.book
TextTooLong(req) ==
  /\ ~SomeChunkMissing(req)
  /\ SumLen(req.ids) > TTSLimit
\* a processed group exists for the key of the request's chunks
GroupStored(req) ==
  /\ ~NoOrTooManyIds(req) /\ ~SomeChunkMissing(req)
  /\ \E i \in 1..Len(groups) :
       /\ groups[i].book = req.book
       /\ \A k \in 1..Len(req.ids) :
            /\ groups[i].s <= BookChunk[req.ids[k]].index
            /\ BookChunk[req.ids[k]].index <= groups[i].e
       /\ \E k \in 1..Len(req.ids) : groups[i].s = BookChunk[req.ids[k]].index
       /\ \E k \in 1..Len(req.ids) : groups[i].e = BookChunk[req.ids[k]].index

Rejected(r) == r.code >= 400 /\ r.file = NoPath
\* the step creates exactly one job, queued, for the request it answers
OneJobQueued ==
  /\ Len(jobs') = Len(jobs) + 1
  /\ SubSeq(jobs', 1, Len(jobs)) = jobs
  /\ jobs'[Len(jobs')].status = "queued"
  /\ jobs'[Len(jobs')].book = reply'.req.book
  /\ parseChunkIDs(jobs'[Len(jobs')].chunkIDs) = reply'.req.ids

LeavesStage(r, pc) == runs[r].pc = pc /\ runs'[r].pc \notin {pc, "panic"}

\* C25: a run never reads or overwrites a file of another run: the music
\* clip its background is built from and the background track its base mix
\* reads are the ones it wrote itself, and it replaces no clip that another
\* run has still to read.
C25_RunsShareNoFiles ==
  [][ \A r \in 1..Len(runs) :
        /\ LeavesStage(r, "background") => workdir.music = r
        /\ LeavesStage(r, "basemix") => workdir.bg = r
        /\ (runs[r].pc = "music" /\ runs'[r].pc = "plan")
             => \A o \in 1..Len(runs) :
                  (o # r /\ workdir.music = o)
                    => runs[o].pc \notin {"plan", "background"} ]_vars


\* C26: every engine invocation made for a job returns or is cut off by a
\* timeout, so the worker is never held inside processMergedChunks by an
\* invocation that does not end.
C26_WorkerNeverBlocked ==
  \A w \in 1..Len(workers) :
    workers[w].pc = "merge" => calls[workers[w].call].pc # "hung"


(***************************************************************************)
(* The artifacts of a chunk group                                          *)
(***************************************************************************)
\* the activation went through without an error
GroupWritten == group.pc = "done" /\ group.err = ""

\* what C27 says of the rows, the key, the audio list and the paths
GroupAsClaimed ==
  /\ Range(group.chunks) = group.ids
  /\ Len(group.chunks) = Cardinality(group.ids)
  /\ \A i, j \in 1..Len(group.chunks) :
       i < j => BookChunk[group.chunks[i]].index <= BookChunk[group.chunks[j]].index
  /\ \A id \in group.ids :
       group.s <= BookChunk[id].index /\ BookChunk[id].index <= group.e
  /\ \E id \in group.ids : group.s = BookChunk[id].index
  /\ \E id \in group.ids : group.e = BookChunk[id].index
  /\ \A i \in 1..Len(group.list) : group.list[i].ext = ".mp3"
  /\ Len(group.list)
       = Cardinality({id \in group.ids : group.audio[id].ext = ".mp3"})
  /\ \A i, j \in 1..Len(group.list) :
       i < j => BookChunk[group.list[i].name].index
                  <= BookChunk[group.list[j].name].index
  /\ \A id \in group.ids :
       group.audio[id].ext = ".mp3"
         <=> \E i \in 1..Len(group.list) : group.list[i] = group.audio[id]
  /\ group.textFile = Path("chunks_txt", group.book, group.s, group.e, "")
  /\ group.mergedAudio = Path("chunks_mp3", group.book, group.s, group.e, "")

\* C27: when processMergedChunks ends without an error the rows are in
\* index order, the key is the first and the last index, the text is the
\* contents in that order with a newline after each, the audio list holds
\* the .mp3 chunks only, in index order, and the text and audio paths are
\* made of the book and the key alone.
C27_GroupArtifacts ==
  GroupWritten =>
    /\ GroupAsClaimed
    /\ Len(group.text) = 2 * Len(group.chunks)
    /\ \A i \in 1..Len(group.text) :
         group.text[i] = IF i % 2 = 1 THEN ChunkContent(group.chunks[(i + 1) \div 2])
                         ELSE "\n"

\* chunks 1, 2 and 3 were merged although chunk 2 has its audio in another
\* format: the list names chunks 1 and 3 only
C27_Witness ==
  /\ GroupWritten
  /\ group.ids = {1, 2, 3} /\ group.audio[2].ext = ".ogg"
  /\ group.chunks = <<1, 2, 3>>
  /\ Len(group.list) = 2 /\ group.list[2].name = 3
  /\ group.s = 0 /\ group.e = 2


(***************************************************************************)
(* Validation of interactive requests                                      *)
(***************************************************************************)
\* the chunks an interactive request names: by page of a book, or by id
\* (0 stands for a chunk that does not exist)
Requested(a) ==
  IF a.kind = "pages"
  THEN [i \in 1..Len(a.req.pages) |->
          IF \E id \in ChunkIds : /\ BookChunk[id].book = a.req.book
                                  /\ BookChunk[id].index = a.req.pages[i] - 1
          THEN CHOOSE id \in ChunkIds : /\ BookChunk[id].book = a.req.book
                                        /\ BookChunk[id].index = a.req.pages[i] - 1
          ELSE 0]
  ELSE [i \in 1..Len(a.req) |-> IF a.req[i] \in ChunkIds THEN a.req[i] ELSE 0]

\* every requested chunk exists, all are of one book, none is completed
WellFormed(a, tts) ==
  LET want == Requested(a)
  IN  /\ \A i \in 1..Len(want) : want[i] # 0
      /\ \A i, j \in 1..Len(want) : BookChunk[want[i]].book = BookChunk[want[j]].book
      /\ \A i \in 1..Len(want) : tts[want[i]] # "completed"

\* the handler answered in this step
InteractiveAnswered == answer' # answer \/ Len(calls') > Len(calls)

\* C28: a request for one or two chunks that names a missing chunk, chunks
\* of two books or a completed chunk is answered 400 and changes no chunk
\* status, no call and no run; and a chunk's status changes only in the
\* synthesis of a request that was accepted.
C28_InvalidRequestRejected ==
  [][/\ (InteractiveAnswered /\ ~WellFormed(answer', chunkTTS))
          => /\ answer'.code = 400
             /\ UNCHANGED <<chunkTTS, calls, runs, groups, books>>
     /\ \A id \in ChunkIds :
          chunkTTS'[id] # chunkTTS[id]
            => \E c \in InteractiveCalls :
                 /\ calls[c].pc = "tts"
                 /\ id \in Range(calls[c].ids)
                 /\ \A x \in Range(calls[c].ids) :
                      /\ x \in ChunkIds
                      /\ BookChunk[x].book = calls[c].book]_vars

\* chunks 1 and 4, of two books and neither completed, were refused
C28_Witness ==
  /\ answer = Answer("ids", <<1, 4>>, FALSE)
  /\ chunkTTS[1] # "completed" /\ chunkTTS[4] # "completed"
  /\ calls = <<>>


(***************************************************************************)
(* The group row and the merge it stands for                               *)
(***************************************************************************)
\* C29: a ProcessedChunkGroup row is present only for groups whose merge
\* ended completed: once the orchestrator run launched by the call that
\* saved the row has ended, it ended with the book completed (by its own
\* merge or by reuse).
C29_RowOnlyForCompletedMerge ==
  \A c \in 1..Len(calls) :
    (calls[c].saved /\ runs[calls[c].run].pc \in {"done", "panic"})
      => runs[calls[c].run].result \in {"completed", "reused"}


(***************************************************************************)
(* Recovery of the array from the collaborator's message                   *)
(***************************************************************************)
\* the message has a "[" with a "]" somewhere after it
HasBracketPair(c) ==
  \E i, j \in 1..Len(c) : i < j /\ c[i] = "[" /\ c[j] = "]"

\* the part of the message between its first "[" and its last "]", inclusive
Bracketed(c) ==
  LET first == CHOOSE i \in 1..Len(c) :
                 c[i] = "[" /\ \A k \in 1..(i - 1) : c[k] # "["
      last == CHOOSE j \in 1..Len(c) :
                c[j] = "]" /\ \A k \in (j + 1)..Len(c) : c[k] # "]"
  IN  [k \in 1..(last - first + 1) |-> c[first + k - 1]]

\* the message without the white space at its ends
Trimmed(c) ==
  LET inner == {i \in 1..Len(c) : c[i] # " "}
  IN  IF inner = {} THEN <<>>
      ELSE LET lo == CHOOSE i \in inner : \A k \in inner : i <= k
               hi == CHOOSE i \in inner : \A k \in inner : k <= i
           IN  [k \in 1..(hi - lo + 1) |-> c[lo + k - 1]]

\* the planner has answered a message of the collaborator
PlannedFromContent == plan.pc # "segments" /\ plan.resp.kind = "content"

\* C30: the plan of a message with a bracket pair is the parse of the text
\* from its first "[" to its last "]"; without a pair it is the parse of
\* the whole trimmed message; and when that text does not parse the plan is
\* the fallback.
C30_ArrayRecovered ==
  PlannedFromContent =>
    LET c == plan.resp.content
        text == IF HasBracketPair(c) THEN Bracketed(c) ELSE Trimmed(c)
    IN  IF ParseSegments(text).ok
        THEN plan.seg = PlanResult(ParseSegments(text).segs, "", "collaborator")
        ELSE /\ plan.seg.source = "fallback" /\ plan.seg.err = ""
             /\ EqualSplit(plan.seg.segs, plan.dur)

\* a fenced array was recovered
C30_Witness ==
  /\ PlannedFromContent
  /\ plan.resp.content = <<" ", "fence", "[", "A", "]", "fence", " ">>
  /\ plan.seg.source = "collaborator" /\ Len(plan.seg.segs) = 1


(***************************************************************************)
(* The clips of the background track                                       *)
(***************************************************************************)
\* the segments of positive length, in the order of the list
PositiveSegments(segs) == SelectSeq(segs, LAMBDA sg : RatLT(sg.start, sg.end))

\* the background builder listed its clips for the concat
ClipsListed == plan.pc = "done" /\ plan.bg.err \in {"", "concat fail", "trim fail"}

\* C31 as stated: one clip per segment of positive length, in list order,
\* each exactly start + (end - start) long with exactly start of silence at
\* its head.
C31_ClipPerSegmentExact ==
  ClipsListed =>
    LET segs == PositiveSegments(plan.seg.segs)
    IN  /\ Len(plan.bg.clips) = Len(segs)
        /\ \A k \in 1..Len(segs) :
             /\ Rat(plan.bg.clips[k].centis, 100)
                  = RatAdd(segs[k].start, RatSub(segs[k].end, segs[k].start))
             /\ Rat(plan.bg.clips[k].delay, 1000) = segs[k].start

\* C31: one clip per segment of positive length, in list order, and none
\* for the others; a clip is start + (end - start) long to the nearest
\* hundredth of a second, and its head of silence is start cut down to a
\* whole millisecond.
C31_ClipPerSegment ==
  ClipsListed =>
    LET segs == PositiveSegments(plan.seg.segs)
    IN  /\ Len(plan.bg.clips) = Len(segs)
        /\ \A k \in 1..Len(segs) :
             LET total == RatAdd(segs[k].start, RatSub(segs[k].end, segs[k].start))
                 long == Rat(plan.bg.clips[k].centis, 100)
                 quiet == Rat(plan.bg.clips[k].delay, 1000)
             IN  /\ RatLE(RatSub(long, total), Rat(1, 200))
                 /\ RatLE(RatSub(total, long), Rat(1, 200))
                 /\ RatLE(quiet, segs[k].start)
                 /\ RatLT(RatSub(segs[k].start, quiet), Rat(1, 1000))

\* the list A, C, B gave the clips of A and B, C having no length; B's
\* clip is 25 s long with 10 s of silence
C31_Witness ==
  /\ ClipsListed /\ plan.bg.track # ""
  /\ plan.seg.segs = <<SegA, SegC, SegB>>
  /\ Len(plan.bg.clips) = 2
  /\ plan.bg.clips[2] = [delay |-> 10000, centis |-> 2500]


\* C32: with the equal-split fallback plan of a narration longer than one
\* clip, every segment's music is heard in the returned track over the
\* segment's own span of the timeline, to a hundredth of a second.
C32_FallbackMusicThroughout ==
  (BackgroundBuilt /\ plan.seg.source = "fallback"
     /\ RatLT(Rat(ClipSeconds, 1), plan.dur))
    => \A k \in 1..Len(plan.seg.segs) :
         \E i \in 1..Len(plan.bg.music) :
           /\ RatLE(Rat(plan.bg.music[i].from, 1000),
                    RatAdd(plan.seg.segs[k].start, Rat(1, 100)))
           /\ RatLE(RatSub(plan.seg.segs[k].end, Rat(1, 100)),
                    Rat(plan.bg.music[i].to, 1000))


(***************************************************************************)
(* Cleanup of the transient files                                          *)
(***************************************************************************)
\* merge o has written clips that its concat has still to read
AwaitsConcat(o) == builds[o].pc \in {"list", "concat"}

\* C33: the cleanup at the end of one merge removes no clip and no list
\* that another merge, still running, has written and not yet read.
C33_CleanupSparesOthers ==
  [][ \A k \in 1..Len(builds) :
        (builds[k].pc = "cleanup" /\ builds'[k].pc = "done")
          => \A o \in 1..Len(builds) :
               (o # k /\ AwaitsConcat(o))
                 => tempdir'.segs # 0 /\ tempdir'.list = tempdir.list ]_vars


(***************************************************************************)
(* The planner's errors                                                    *)
(***************************************************************************)
\* the planner has no API key, or cannot read the text file
PlannerCannotStart(resp) == resp.kind \in {"no_key", "read_fail"}

SmallestIndex(ids) ==
  CHOOSE x \in {BookChunk[id].index : id \in Range(ids) \cap ChunkIds} :
    \A id \in Range(ids) \cap ChunkIds : x <= BookChunk[id].index
LargestIndex(ids) ==
  CHOOSE x \in {BookChunk[id].index : id \in Range(ids) \cap ChunkIds} :
    \A id \in Range(ids) \cap ChunkIds : BookChunk[id].index <= x

\* the rows stored for the book and the ends of these ids
RowsForEnds(g, bookID, ids) ==
  {i \in 1..Len(g) : /\ g[i].book = bookID
                     /\ g[i].s = SmallestIndex(ids)
                     /\ g[i].e = LargestIndex(ids)}

\* C35: the key of a request is its book with the smallest and the largest
\* index of its chunks: a call of processMergedChunks past its lookup holds
\* that key, and a submission for which a row with that key is stored,
\* whatever chunks lie between the ends, is answered with that row's file
\* (unless its query fails) and creates no job, no call and no run.
C35_KeyIsBookAndEnds ==
  [][ /\ \A c \in 1..Len(calls') :
           calls'[c].pc \in {"merge", "save"}
             => /\ calls'[c].s = SmallestIndex(calls'[c].ids)
                /\ calls'[c].e = LargestIndex(calls'[c].ids)
      /\ (SubmitStep /\ ~NoOrTooManyIds(reply'.req) /\ ~SomeChunkMissing(reply'.req)
            /\ RowsForEnds(groups, reply'.req.book, reply'.req.ids) # {})
           => /\ reply'.code \in {200, 500}
              /\ reply'.code = 200
                   => \E i \in RowsForEnds(groups, reply'.req.book, reply'.req.ids) :
                        reply'.file = groups[i].path
              /\ jobs' = jobs /\ calls' = calls /\ runs' = runs ]_vars

\* chunks 1, 2 and 3 were asked for and the file merged from chunks 1 and 3
\* alone was served
C35_Witness ==
  /\ reply.req.ids = <<1, 2, 3>> /\ reply.code = 200
  /\ reply.file = MergedAudioPath(1, 0, 2)
  /\ \A c \in 1..Len(calls) : calls[c].ids = <<1, 3>>
  /\ \E c \in 1..Len(calls) : calls[c].saved


(***************************************************************************)
(* Reuse by content hash                                                   *)
(***************************************************************************)
\* run r ends at the lookup in this step, with the audio of a record
ReusedBy(r) == runs[r].pc = "dedup" /\ runs'[r].result = "reused"

Finished(j) == j <= Len(jobs) /\ jobs[j].status \in {"complete", "failed"}

C38_RoundTrip ==
  trip.pc = "done" =>
    /\ parseChunkIDs(joinUintSlice(trip.ids)) = trip.parsed
    /\ Len(trip.ids) > 0 => trip.parsed = trip.ids
    /\ Len(trip.ids) = 0 => trip.parsed # <<>>

C38_Witness ==
  /\ trip.pc = "done"
  /\ Len(trip.ids) >= 2
  /\ trip.ids[1] = 105 /\ trip.ids[2] = 0
  /\ Len(trip.column) >= 5
  /\ trip.parsed = trip.ids

====
